---- MODULE Spec2Model ----
(***************************************************************************)
(* Status tracker: ingestion boundary (api/routers/webhooks.py), the       *)
(* in-memory queue (worker/queue_manager.py), the worker loop              *)
(* (worker/tasks.py) and the adapters it dispatches to (adapters/*.py).    *)
(*                                                                         *)
(* Conventions.                                                            *)
(*  - A request body is a sequence of lexical tokens [t, v]; json_loads    *)
(*    decodes and parses it as Python's json.loads does.                   *)
(*  - A JSON value is a record [k, s, kids]: k is the Python type of the   *)
(*    value ("obj" dict, "arr" list, "str", "num", "bool", "null"), s the  *)
(*    text of a scalar, kids the members <<[key, val], ...>> of a dict     *)
(*    (insertion order, keys unique) or the elements of a list (key = ""). *)
(*  - A formatted string (an f-string) is the sequence of its pieces.      *)
(***************************************************************************)
EXTENDS Integers, Sequences, FiniteSets, TLC

\* ------------------------------------------------------------------------
\* Bounds of the model
\* ------------------------------------------------------------------------

\* Total number of webhook requests issued in one behaviour.
MaxRequests == 3

\* Concurrent ingestion callers (pollers or third parties posting webhooks).
Callers == {"c1", "c2"}

\* ------------------------------------------------------------------------
\* JSON values
\* ------------------------------------------------------------------------

JStr(s) == [k |-> "str", s |-> s, kids |-> <<>>]
JNum(s) == [k |-> "num", s |-> s, kids |-> <<>>]
JBool(s) == [k |-> "bool", s |-> s, kids |-> <<>>]
JNull == [k |-> "null", s |-> "", kids |-> <<>>]
JObj(members) == [k |-> "obj", s |-> "", kids |-> members]
JArr(members) == [k |-> "arr", s |-> "", kids |-> members]

\* One member of a dict / one element of a list.
Member(key, val) == [key |-> key, val |-> val]
Elem(val) == [key |-> "", val |-> val]

\* dict[key] = val: an existing key keeps its position and takes the new
\* value (json.loads keeps the last of duplicate keys), a new key is appended.
DictSet(members, key, val) ==
    IF \E i \in 1..Len(members) : members[i].key = key
    THEN [i \in 1..Len(members) |->
            IF members[i].key = key THEN Member(key, val) ELSE members[i]]
    ELSE Append(members, Member(key, val))

\* ------------------------------------------------------------------------
\* Request bodies and json.loads
\* ------------------------------------------------------------------------

Tok(t, v) == [t |-> t, v |-> v]
LBrace == Tok("{", "")
RBrace == Tok("}", "")
LBrack == Tok("[", "")
RBrack == Tok("]", "")
Colon == Tok(":", "")
Comma == Tok(",", "")
S(v) == Tok("str", v)
N(v) == Tok("num", v)
\* The literals true and false.
B(v) == Tok("bool", v)
NullTok == Tok("null", "")
\* A bare word that is no JSON literal (as in b"this is not json").
Word(v) == Tok("word", v)
\* A byte that is not valid UTF-8 (as in b"\xff").
BadByte == Tok("xff", "")

ParseFail == [ok |-> FALSE, val |-> JNull, next |-> 0]
ParseOk(val, next) == [ok |-> TRUE, val |-> val, next |-> next]

RECURSIVE ParseValue(_, _)
RECURSIVE ParseMembers(_, _, _)
RECURSIVE ParseElements(_, _, _)

\* members ::= string ':' value ( ',' members )? ; i is at the string.
ParseMembers(b, i, acc) ==
    IF i + 1 > Len(b) \/ b[i].t # "str" \/ b[i + 1].t # ":"
    THEN ParseFail
    ELSE LET r == ParseValue(b, i + 2)
         IN  IF ~r.ok \/ r.next > Len(b)
             THEN ParseFail
             ELSE LET acc2 == DictSet(acc, b[i].v, r.val)
                  IN  CASE b[r.next].t = "}" -> ParseOk(JObj(acc2), r.next + 1)
                        [] b[r.next].t = "," -> ParseMembers(b, r.next + 1, acc2)
                        [] OTHER -> ParseFail

\* elements ::= value ( ',' elements )? ; i is at the value.
ParseElements(b, i, acc) ==
    LET r == ParseValue(b, i)
    IN  IF ~r.ok \/ r.next > Len(b)
        THEN ParseFail
        ELSE LET acc2 == Append(acc, Elem(r.val))
             IN  CASE b[r.next].t = "]" -> ParseOk(JArr(acc2), r.next + 1)
                   [] b[r.next].t = "," -> ParseElements(b, r.next + 1, acc2)
                   [] OTHER -> ParseFail

ParseValue(b, i) ==
    IF i > Len(b)
    THEN ParseFail
    ELSE CASE b[i].t = "str" -> ParseOk(JStr(b[i].v), i + 1)
           [] b[i].t = "num" -> ParseOk(JNum(b[i].v), i + 1)
           [] b[i].t = "bool" -> ParseOk(JBool(b[i].v), i + 1)
           [] b[i].t = "null" -> ParseOk(JNull, i + 1)
           [] b[i].t = "{" ->
                IF i + 1 <= Len(b) /\ b[i + 1].t = "}"
                THEN ParseOk(JObj(<<>>), i + 2)
                ELSE ParseMembers(b, i + 1, <<>>)
           [] b[i].t = "[" ->
                IF i + 1 <= Len(b) /\ b[i + 1].t = "]"
                THEN ParseOk(JArr(<<>>), i + 2)
                ELSE ParseElements(b, i + 1, <<>>)
           [] OTHER -> ParseFail

\* json.loads(raw_bytes): the bytes are decoded first (UnicodeDecodeError on
\* an invalid byte anywhere), then one value must span the whole text
\* (JSONDecodeError otherwise). exc = "" when a value is returned.
json_loads(b) ==
    IF \E i \in 1..Len(b) : b[i].t = "xff"
    THEN [exc |-> "UnicodeDecodeError", val |-> JNull]
    ELSE LET r == ParseValue(b, 1)
         IN  IF r.ok /\ r.next = Len(b) + 1
             THEN [exc |-> "", val |-> r.val]
             ELSE [exc |-> "JSONDecodeError", val |-> JNull]

\* ------------------------------------------------------------------------
\* Python values as the adapters read them
\* ------------------------------------------------------------------------

\* An exception raised while evaluating an expression; it propagates through
\* every operation applied to it.
Exc(name) == [k |-> "exc", s |-> name, kids |-> <<>>]
IsExc(v) == v.k = "exc"

HasKey(d, key) == \E i \in 1..Len(d.kids) : d.kids[i].key = key
Lookup(d, key) == d.kids[CHOOSE i \in 1..Len(d.kids) : d.kids[i].key = key].val

\* d.get(key, default): only a dict has .get.
py_get(d, key, default) ==
    IF IsExc(d) THEN d
    ELSE IF d.k # "obj" THEN Exc("AttributeError")
    ELSE IF HasKey(d, key) THEN Lookup(d, key)
    ELSE default

\* bool(v): empty containers, the empty string, zero and None are false.
py_truthy(v) ==
    CASE v.k \in {"obj", "arr"} -> v.kids # <<>>
      [] v.k = "str" -> v.s # ""
      [] v.k = "num" -> v.s \notin {"0", "0.0", "-0", "-0.0"}
      [] v.k = "bool" -> v.s = "true"
      [] OTHER -> FALSE

\* a or b
py_or(a, b) == IF IsExc(a) THEN a ELSE IF py_truthy(a) THEN a ELSE b

\* v[0]: the first element of a list; a dict has no key 0; a number and
\* None are not subscriptable. (The first character of a string is a string.)
py_first(v) ==
    IF IsExc(v) THEN v
    ELSE CASE v.k = "arr" -> IF v.kids = <<>> THEN Exc("IndexError") ELSE v.kids[1].val
           [] v.k = "obj" -> Exc("KeyError")
           [] v.k = "str" -> IF v.s = "" THEN Exc("IndexError") ELSE JStr("<char>")
           [] OTHER -> Exc("TypeError")

\* d[key] on the element of a list.
py_item(d, key) ==
    IF IsExc(d) THEN d
    ELSE CASE d.k = "obj" -> IF HasKey(d, key) THEN Lookup(d, key) ELSE Exc("KeyError")
           [] d.k = "str" -> Exc("TypeError")
           [] d.k = "arr" -> Exc("TypeError")
           [] OTHER -> Exc("TypeError")

\* len(v)
py_len(v) == IF v.k \in {"obj", "arr"} THEN Len(v.kids) ELSE 0
HasLen(v) == v.k \in {"obj", "arr", "str"}

\* format(v) inside an f-string: one text piece.
py_format(v) ==
    CASE v.k \in {"str", "num"} -> v.s
      [] v.k = "bool" -> IF v.s = "true" THEN "True" ELSE "False"
      [] v.k = "null" -> "None"
      [] v.k = "obj" -> "<dict>"
      [] v.k = "arr" -> "<list>"
      [] OTHER -> "<exc>"

\* str.lower(), str.upper(), str.title() (after replace("_", " ")) and
\* str.capitalize(), tabulated on the strings the model's requests carry; a
\* string without letters to change maps to itself.
lower(s) ==
    CASE s = "OpenAI" -> "openai"
      [] s = "Discord" -> "discord"
      [] s = "APPLE" -> "apple"
      [] s = "Unknown_Svc" -> "unknown_svc"
      [] s = "Critical" -> "critical"
      [] s = "Resolved" -> "resolved"
      [] s = "API outage" -> "api outage"
      [] s = "API OUTAGE" -> "api outage"
      [] s = "ChatGPT is down" -> "chatgpt is down"
      [] s = "Sora unavailable" -> "sora unavailable"
      [] s = "Degraded performance" -> "degraded performance"
      [] s = "Elevated error rate" -> "elevated error rate"
      [] s = "High latency" -> "high latency"
      [] s = "Login issues" -> "login issues"
      [] s = "Outage: elevated errors" -> "outage: elevated errors"
      [] OTHER -> s

\* Mutant: the incident type is printed as given.
upper_as_given(s) == s

upper(s) ==
    CASE s = "outage" -> "OUTAGE"
      [] s = "resolved" -> "RESOLVED"
      [] s = "degradation" -> "DEGRADATION"
      [] s = "new_incident" -> "NEW_INCIDENT"
      [] s = "update" -> "UPDATE"
      [] s = "maintenance" -> "MAINTENANCE"
      [] s = "unknown" -> "UNKNOWN"
      [] OTHER -> s

replace_title(s) ==
    CASE s = "investigating" -> "Investigating"
      [] s = "identified" -> "Identified"
      [] s = "monitoring" -> "Monitoring"
      [] s = "resolved" -> "Resolved"
      [] s = "unknown" -> "Unknown"
      [] s = "operational" -> "Operational"
      [] s = "degraded_performance" -> "Degraded Performance"
      [] s = "partial_outage" -> "Partial Outage"
      [] s = "major_outage" -> "Major Outage"
      [] s = "under_maintenance" -> "Under Maintenance"
      [] OTHER -> s

capitalize(s) ==
    CASE s = "none" -> "None"
      [] s = "minor" -> "Minor"
      [] s = "major" -> "Major"
      [] s = "critical" -> "Critical"
      [] s = "maintenance" -> "Maintenance"
      [] OTHER -> s

\* ------------------------------------------------------------------------
\* Adapters (adapters/*.py): parse(payload) -> NormalizedEvent
\* ------------------------------------------------------------------------

\* The outcome of adapter.parse: exc = "" and a NormalizedEvent (product and
\* status as text pieces, provider, raw), or the exception it raised.
\* (NormalizedEvent.timestamp is the wall-clock time of construction; nothing
\* modelled here reads it.)
Event(product, status, provider, raw) ==
    [exc |-> "", product |-> product, status |-> status, provider |-> provider, raw |-> raw]
Raised(exc) ==
    [exc |-> exc, product |-> <<>>, status |-> <<>>, provider |-> "", raw |-> JNull]

\* The first exception among values evaluated in this order ("" if none).
RECURSIVE FirstExc(_)
FirstExc(vals) ==
    IF vals = <<>> THEN ""
    ELSE IF IsExc(vals[1]) THEN vals[1].s
    ELSE FirstExc(Tail(vals))

\* A method of str (.upper, .replace, .capitalize) applied to v.
str_method(v) ==
    IF IsExc(v) THEN v ELSE IF v.k = "str" THEN v ELSE Exc("AttributeError")

\* pydantic's validation of a `str` field of NormalizedEvent.
str_field(v) ==
    IF IsExc(v) THEN v ELSE IF v.k = "str" THEN v ELSE Exc("ValidationError")

\* A value that is not a dict has no .get; `key in v` already fails on a
\* number or None.
NotADict(v) == IF v.k \in {"num", "bool", "null"} THEN "TypeError" ELSE "AttributeError"

EmptyDict == JObj(<<>>)
EmptyList == JArr(<<>>)

OpenAIAdapter_parse(payload) ==
    IF payload.k # "obj" THEN Raised(NotADict(payload))
    ELSE IF HasKey(payload, "incident_type")
    THEN \* envelope of the poller
         LET inc == py_get(payload, "incident", EmptyDict)
             inc_type == str_method(py_get(payload, "incident_type", JStr("unknown")))
             comps == py_get(inc, "components", EmptyList)
             comps_len == IF IsExc(comps) THEN comps
                          ELSE IF HasLen(comps) THEN comps ELSE Exc("TypeError")
             one == ~IsExc(comps_len) /\ comps.k \in {"obj", "arr"} /\ py_len(comps) = 1
             name == IF one THEN py_item(py_first(comps), "name") ELSE JNull
             title == IF ~IsExc(comps_len) /\ ~one /\ ~py_truthy(comps)
                      THEN str_field(py_get(inc, "title", JStr("OpenAI")))
                      ELSE JNull
             \* (the characters of a string are not modelled: a string given as
             \* `components` counts as neither empty nor of length 1)
             product == IF one THEN <<"OpenAI ", py_format(name)>>
                        ELSE IF IsExc(comps_len) THEN <<>>
                        ELSE IF py_truthy(comps)
                        THEN <<"OpenAI (", ToString(py_len(comps)), " components affected)">>
                        ELSE <<py_format(title)>>
             status_label == str_method(py_get(inc, "status", JStr("unknown")))
             message == py_or(py_get(inc, "message", JStr("")),
                              py_get(inc, "title", JStr("No details.")))
             exc == FirstExc(<<inc, inc_type, comps_len, name, status_label, message, title>>)
         IN  IF exc # "" THEN Raised(exc)
             ELSE Event(product,
                        <<"[", upper(inc_type.s), "] (", replace_title(status_label.s), ") ",
                          py_format(message)>>,
                        "openai", payload)
    ELSE \* legacy webhook
         LET page == py_get(py_get(payload, "page", EmptyDict), "name", JStr("Unknown Page"))
             comp == py_get(py_get(payload, "component", EmptyDict), "name",
                            JStr("Unknown Component"))
             inc == py_get(payload, "incident", EmptyDict)
             status == str_field(py_or(py_or(py_get(inc, "body", JNull),
                                             py_get(inc, "name", JNull)),
                                       JStr("No status message provided.")))
             exc == FirstExc(<<page, comp, inc, status>>)
         IN  IF exc # "" THEN Raised(exc)
             ELSE Event(<<py_format(page), " ", py_format(comp)>>, <<status.s>>,
                        "openai", payload)

\* Mutant: the page indicator is shown as it is, capitalized.
INDICATOR_MAP_capitalized(indicator) == capitalize(indicator)

\* _INDICATOR_MAP.get(indicator, indicator.capitalize()): the default is
\* evaluated before the lookup.
INDICATOR_MAP(indicator) ==
    CASE indicator = "none" -> "Operational"
      [] indicator = "minor" -> "Degraded Performance"
      [] indicator = "major" -> "Partial Outage"
      [] indicator = "critical" -> "Major Outage"
      [] OTHER -> capitalize(indicator)

DiscordAdapter_parse(payload) ==
    IF payload.k # "obj" THEN Raised("AttributeError")
    ELSE LET page_name == py_get(py_get(payload, "page", EmptyDict), "name", JStr("Discord"))
             incidents == py_get(payload, "incidents", EmptyList)
         IN  IF IsExc(page_name) THEN Raised(page_name.s)
             ELSE IF py_truthy(incidents)
             THEN LET active_incident == py_first(incidents)
                      component_name == py_get(active_incident, "name", JStr("Unknown Service"))
                      updates == py_get(active_incident, "incident_updates", EmptyList)
                      text == IF IsExc(updates) THEN updates
                              ELSE IF py_truthy(updates)
                              THEN py_get(py_first(updates), "body", JNull)
                              ELSE py_get(active_incident, "name", JStr(""))
                      status_text == str_field(py_or(text, JStr("No details available.")))
                      exc == FirstExc(<<active_incident, component_name, updates, status_text>>)
                  IN  IF exc # "" THEN Raised(exc)
                      ELSE Event(<<py_format(page_name), " ", py_format(component_name)>>,
                                 <<status_text.s>>, "discord", payload)
             ELSE LET status_obj == py_get(payload, "status", EmptyDict)
                      indicator == py_get(status_obj, "indicator", JStr("none"))
                      description == py_get(status_obj, "description",
                                            JStr("All Systems Operational"))
                      exc == FirstExc(<<status_obj, indicator, description,
                                        str_method(indicator)>>)
                  IN  IF exc # "" THEN Raised(exc)
                      ELSE Event(<<py_format(page_name), " ", "Platform">>,
                                 <<INDICATOR_MAP(indicator.s), " - ", py_format(description)>>,
                                 "discord", payload)

\* Mutant: the summary of an affected service without its name.
AppleSummary_nameless(svc) ==
    [exc |-> "", text |-> <<"Issue", " (", "ongoing", ")">>]

\* One entry of `summaries` for an affected service (apple_adapter.py:41-51).
AppleSummary(svc) ==
    LET name == py_get(svc, "serviceName", JStr("Unknown Service"))
        events == py_get(svc, "events", EmptyList)
        event == IF py_truthy(events) THEN py_first(events) ELSE EmptyDict
        status_type == py_get(event, "statusType", JStr("Issue"))
        event_status == py_get(event, "eventStatus", JStr("ongoing"))
        users == py_get(event, "usersAffected", JStr(""))
        exc == FirstExc(<<name, events, event, status_type, event_status, users>>)
    IN  [exc |-> exc,
         text |-> IF exc # "" THEN <<>>
                  ELSE <<py_format(name), ": ", py_format(status_type), " (",
                         py_format(event_status), ")">>
                       \o (IF py_truthy(users) THEN <<" - ", py_format(users)>> ELSE <<>>)]

\* " | ".join(summaries)
RECURSIVE JoinSummaries(_)
JoinSummaries(summaries) ==
    IF summaries = <<>> THEN <<>>
    ELSE IF Len(summaries) = 1 THEN summaries[1].text
    ELSE summaries[1].text \o <<" | ">> \o JoinSummaries(Tail(summaries))

\* [s for s in services if s.get("events")]: the affected services in
\* order, or the first exception the filter raises.
RECURSIVE AppleIssues(_, _)
AppleIssues(kids, acc) ==
    IF kids = <<>> THEN [exc |-> "", issues |-> acc]
    ELSE LET ev == py_get(kids[1].val, "events", JNull)
         IN  IF IsExc(ev) THEN [exc |-> ev.s, issues |-> <<>>]
             ELSE AppleIssues(Tail(kids), IF py_truthy(ev) THEN Append(acc, kids[1].val) ELSE acc)

AppleAdapter_parse(payload) ==
    IF payload.k # "obj" THEN Raised("AttributeError")
    ELSE LET data == py_get(payload, "data", JNull)
         IN  IF ~py_truthy(data)
             THEN Event(<<"Apple Services">>, <<"No status data received.">>, "apple", payload)
             ELSE LET services == py_get(data, "services", EmptyList)
                  IN  IF IsExc(services) THEN Raised(services.s)
                      ELSE IF services.k \in {"num", "bool", "null"} THEN Raised("TypeError")
                      ELSE IF services.k \in {"str", "obj"} /\ py_truthy(services)
                      THEN Raised("AttributeError")
                      ELSE LET f == AppleIssues(services.kids, <<>>)
                               summaries == [i \in 1..Len(f.issues) |-> AppleSummary(f.issues[i])]
                           IN  IF f.exc # "" THEN Raised(f.exc)
                               ELSE IF \E i \in 1..Len(summaries) : summaries[i].exc # ""
                               THEN Raised(summaries[CHOOSE i \in 1..Len(summaries) :
                                                /\ summaries[i].exc # ""
                                                /\ \A j \in 1..(i - 1) : summaries[j].exc = ""].exc)
                               ELSE IF f.issues # <<>>
                               THEN Event(<<"Apple Services (", ToString(Len(f.issues)), " affected)">>,
                                          JoinSummaries(summaries), "apple", payload)
                               ELSE Event(<<"Apple Services">>,
                                          <<"All services are operating normally.">>,
                                          "apple", payload)

\* ------------------------------------------------------------------------
\* Inputs: the webhook requests of the model
\* ------------------------------------------------------------------------

\* []  (valid JSON, not an object)
Body_list == <<LBrack, RBrack>>
\* this is not json
Body_text == <<Word("this"), Word("is"), Word("not"), Word("json")>>
\* b"\xff"
Body_xff == <<BadByte>>
\* {"some": "data"}
Body_some == <<LBrace, S("some"), Colon, S("data"), RBrace>>
\* {"page": {"name": "Discord"},
\*  "status": {"indicator": "none", "description": "All Systems Operational"},
\*  "incidents": []}
Body_discord ==
    <<LBrace, S("page"), Colon, LBrace, S("name"), Colon, S("Discord"), RBrace, Comma,
      S("status"), Colon, LBrace, S("indicator"), Colon, S("none"), Comma,
      S("description"), Colon, S("All Systems Operational"), RBrace, Comma,
      S("incidents"), Colon, LBrack, RBrack, RBrace>>

\* The bytes of a request body, by the name the model gives the body.
Bytes(body) ==
    CASE body = "list" -> Body_list
      [] body = "text" -> Body_text
      [] body = "xff" -> Body_xff
      [] body = "some" -> Body_some
      [] body = "discord" -> Body_discord

Input(name, body) == [provider_name |-> name, body |-> body]

\* POST /webhooks/{provider_name} with the body.
Inputs ==
    { Input("Discord", "discord"), Input("apple", "some"), Input("Unknown_Svc", "some"),
      Input("openai", "list"), Input("discord", "text"), Input("openai", "xff") }

\* ------------------------------------------------------------------------
\* State
\* ------------------------------------------------------------------------

VARIABLES
    reqs,        \* the webhook requests so far: caller, path, body, response
    queue,       \* event_queue._queue: the items waiting, oldest first
    unfinished,  \* event_queue._queue._unfinished_tasks
    wpc,         \* where start_worker is: "get", "waiting", "process", "crashed",
                 \* "cancelled"
    item,        \* start_worker's local `item`: <<>> or <<the item>>
    sink,        \* the events _log_event has written, in order
    worker_log,  \* one record per item start_worker has finished with
    enqLog,      \* history: the items enqueue() has put, in order, by identity
    deqLog,      \* history: the items dequeue() has returned, in order, by identity
    must_cancel, \* worker_task.cancel() was called and is not yet delivered
    call,        \* one call of an adapter's parse: adapter, payload, result
    apple,       \* the locals of scrape_apple_status
    discord,     \* the locals of poll_discord_status
    openai,      \* the locals of poll_openai_status
    run          \* the poller process: which poller, its cycles so far, the
                 \* responses, the exception and the forwards of its last cycle

\* The pollers are processes of their own: no step of the service writes
\* their variables.
pollers == <<apple, discord, openai, run>>

\* The variables that no step of the handlers or of the worker writes.
others == <<must_cancel, call, pollers>>

vars == <<reqs, queue, unfinished, wpc, item, sink, worker_log, enqLog, deqLog, others>>

NoResponse == [status_code |-> 0, accepted |-> FALSE, provider |-> "", queued_items |-> 0]

\* ------------------------------------------------------------------------
\* QueueManager (worker/queue_manager.py) over asyncio.Queue
\* ------------------------------------------------------------------------

\* QueueManager(maxsize=0): the module-level event_queue is unbounded.
maxsize == 0

qsize(q) == Len(q)

\* Mutant: the queue is built with room for one item.
full_bounded(q) == qsize(q) >= 1

\* asyncio.Queue.full(): never with maxsize <= 0.
full(q) == IF maxsize <= 0 THEN FALSE ELSE qsize(q) >= maxsize

\* Mutant: put at the left end.
enqueue_front(q, it) == <<it>> \o q

\* enqueue(item): put appends at the right end.
enqueue(q, it) == Append(q, it)

\* Mutant: get takes the right end (a stack).
dequeue_lifo(q) == [got |-> q[Len(q)], rest |-> SubSeq(q, 1, Len(q) - 1)]

\* Mutant: get returns the left end and leaves it in the queue.
dequeue_peek(q) == [got |-> Head(q), rest |-> q]

\* dequeue(): get removes and returns the left end.
dequeue(q) == [got |-> Head(q), rest |-> Tail(q)]

\* task_done(): one fewer unfinished task; ValueError when called more often
\* than items were put.
task_done(u) == IF u <= 0 THEN [exc |-> "ValueError", n |-> u] ELSE [exc |-> "", n |-> u - 1]

\* ------------------------------------------------------------------------
\* Ingestion boundary (api/routers/webhooks.py)
\* ------------------------------------------------------------------------

Pending(r) == r \in 1..Len(reqs) /\ reqs[r].response.status_code = 0
Busy(c) == \E r \in 1..Len(reqs) : reqs[r].caller = c /\ Pending(r)

\* A caller posts a request; the handler is suspended in `await
\* request.body()` until receive_webhook(r) runs. A caller awaits the answer
\* to one request before it posts the next; callers are concurrent.
Request(c, inp) ==
    /\ Len(reqs) < MaxRequests
    /\ ~Busy(c)
    /\ reqs' = Append(reqs, [caller |-> c, provider_name |-> inp.provider_name,
                             body |-> inp.body, response |-> NoResponse])
    /\ UNCHANGED <<queue, unfinished, wpc, item, sink, worker_log, enqLog, deqLog, others>>

\* Mutant: the provider name of the path is stored as given.
queue_item_raw(r, payload) ==
    [provider |-> reqs[r].provider_name, payload |-> payload, rid |-> r]

\* The item receive_webhook builds. rid is the identity of the dict object
\* (the request that created it); no code reads it.
queue_item(r, payload) ==
    [provider |-> lower(reqs[r].provider_name), payload |-> payload, rid |-> r]

\* receive_webhook from the return of request.body() to the response. With
\* an unbounded queue put() does not suspend, so this is one step.
receive_webhook(r) ==
    /\ Pending(r)
    /\ LET parsed == json_loads(Bytes(reqs[r].body))
       IN  \/ \* except json.JSONDecodeError: HTTPException(400)
              /\ parsed.exc = "JSONDecodeError"
              /\ reqs' = [reqs EXCEPT ![r].response.status_code = 400]
              /\ UNCHANGED <<queue, unfinished, enqLog>>
           \/ \* any other exception leaves the handler: the framework answers 500
              /\ parsed.exc \notin {"", "JSONDecodeError"}
              /\ reqs' = [reqs EXCEPT ![r].response.status_code = 500]
              /\ UNCHANGED <<queue, unfinished, enqLog>>
           \/ /\ parsed.exc = ""
              /\ ~full(queue)
              /\ queue' = enqueue(queue, queue_item(r, parsed.val))
              /\ unfinished' = unfinished + 1
              /\ enqLog' = Append(enqLog, r)
              /\ reqs' = [reqs EXCEPT ![r].response =
                            [status_code |-> 202, accepted |-> TRUE,
                             provider |-> reqs[r].provider_name,
                             queued_items |-> qsize(queue')]]
    /\ UNCHANGED <<wpc, item, sink, worker_log, deqLog, others>>

\* ------------------------------------------------------------------------
\* Worker (worker/tasks.py)
\* ------------------------------------------------------------------------

ADAPTER_REGISTRY == {"openai", "discord", "apple"}

adapter_parse(provider, payload) ==
    CASE provider = "openai" -> OpenAIAdapter_parse(payload)
      [] provider = "discord" -> DiscordAdapter_parse(payload)
      [] provider = "apple" -> AppleAdapter_parse(payload)

\* Mutant: a provider without an adapter is handed to the Discord adapter.
process_item_fallback(it) ==
    LET provider_name == lower(it.provider)
        event == IF provider_name \in ADAPTER_REGISTRY
                 THEN adapter_parse(provider_name, it.payload)
                 ELSE DiscordAdapter_parse(it.payload)
    IN  IF event.exc # ""
        THEN [outcome |-> "raised", event |-> event]
        ELSE [outcome |-> "event", event |-> event]

\* Mutant: an item whose adapter raised is logged as an event all the same.
process_item_logs_failed(it) ==
    LET provider_name == lower(it.provider)
    IN  IF provider_name \notin ADAPTER_REGISTRY
        THEN [outcome |-> "warning", event |-> Raised("")]
        ELSE LET event == adapter_parse(provider_name, it.payload)
             IN  IF event.exc # ""
                 THEN [outcome |-> "event",
                       event |-> Event(<<>>, <<>>, provider_name, it.payload)]
                 ELSE [outcome |-> "event", event |-> event]

\* _process_item(item): what it logs. "warning" is the missing-adapter
\* drop, "raised" an exception leaving _process_item, "event" the call of
\* _log_event with the NormalizedEvent.
process_item(it) ==
    LET provider_name == lower(it.provider)
    IN  IF provider_name \notin ADAPTER_REGISTRY
        THEN [outcome |-> "warning", event |-> Raised("")]
        ELSE LET event == adapter_parse(provider_name, it.payload)
             IN  IF event.exc # ""
                 THEN [outcome |-> "raised", event |-> event]
                 ELSE [outcome |-> "event", event |-> event]

\* `await event_queue.dequeue()` on an empty queue: the worker suspends.
dequeue_wait ==
    /\ wpc = "get"
    /\ queue = <<>>
    /\ wpc' = "waiting"
    /\ UNCHANGED <<reqs, queue, unfinished, item, sink, worker_log, enqLog, deqLog, others>>

\* Mutant: a dequeue() that has suspended is never woken up.
dequeue_return_no_wakeup ==
    /\ wpc = "get"
    /\ queue # <<>>
    /\ item' = <<dequeue(queue).got>>
    /\ queue' = dequeue(queue).rest
    /\ deqLog' = Append(deqLog, dequeue(queue).got.rid)
    /\ wpc' = "process"
    /\ UNCHANGED <<reqs, unfinished, sink, worker_log, enqLog, others>>

\* dequeue() returns: at once when the queue holds an item, or on waking up
\* after an enqueue.
dequeue_return ==
    /\ wpc \in {"get", "waiting"}
    /\ queue # <<>>
    /\ item' = <<dequeue(queue).got>>
    /\ queue' = dequeue(queue).rest
    /\ deqLog' = Append(deqLog, dequeue(queue).got.rid)
    /\ wpc' = "process"
    /\ UNCHANGED <<reqs, unfinished, sink, worker_log, enqLog, others>>

\* Mutant: a processing failure is reported back on the request.
start_worker_reports ==
    /\ wpc = "process"
    /\ LET res == process_item(item[1])
       IN  /\ sink' = IF res.outcome = "event" THEN Append(sink, res.event) ELSE sink
           /\ worker_log' = Append(worker_log,
                                   [rid |-> item[1].rid, outcome |-> res.outcome,
                                    exc |-> res.event.exc])
           /\ reqs' = IF res.outcome = "event" THEN reqs
                      ELSE [reqs EXCEPT ![item[1].rid].response.status_code = 500]
    /\ unfinished' = unfinished - 1
    /\ wpc' = "get"
    /\ item' = <<>>
    /\ UNCHANGED <<queue, enqLog, deqLog, others>>

\* Mutant: an item whose processing did not yield an event is put back.
start_worker_retry ==
    /\ wpc = "process"
    /\ LET res == process_item(item[1])
       IN  /\ sink' = IF res.outcome = "event" THEN Append(sink, res.event) ELSE sink
           /\ worker_log' = Append(worker_log,
                                   [rid |-> item[1].rid, outcome |-> res.outcome,
                                    exc |-> res.event.exc])
           /\ queue' = IF res.outcome = "event" THEN queue ELSE Append(queue, item[1])
    /\ unfinished' = unfinished - 1
    /\ wpc' = "get"
    /\ item' = <<>>
    /\ UNCHANGED <<reqs, enqLog, deqLog, others>>

\* Mutant: start_worker without its `except Exception`: an exception of
\* _process_item leaves the loop and ends the worker task.
start_worker_dies ==
    /\ wpc = "process"
    /\ LET res == process_item(item[1])
       IN  /\ sink' = IF res.outcome = "event" THEN Append(sink, res.event) ELSE sink
           /\ worker_log' = Append(worker_log,
                                   [rid |-> item[1].rid, outcome |-> res.outcome,
                                    exc |-> res.event.exc])
           /\ wpc' = IF res.outcome = "raised" THEN "crashed" ELSE "get"
    /\ unfinished' = unfinished - 1
    /\ item' = <<>>
    /\ UNCHANGED <<reqs, queue, enqLog, deqLog, others>>

\* Mutant: task_done in an `else` clause instead of `finally`: it is not
\* called for an item whose processing raised.
start_worker_no_finally ==
    /\ wpc = "process"
    /\ LET res == process_item(item[1])
           done == IF res.outcome = "raised" THEN [exc |-> "", n |-> unfinished]
                   ELSE task_done(unfinished)
       IN  /\ sink' = IF res.outcome = "event" THEN Append(sink, res.event) ELSE sink
           /\ worker_log' = Append(worker_log,
                                   [rid |-> item[1].rid, outcome |-> res.outcome,
                                    exc |-> res.event.exc])
           /\ unfinished' = done.n
           /\ wpc' = IF done.exc # "" THEN "crashed" ELSE "get"
    /\ item' = <<>>
    /\ UNCHANGED <<reqs, queue, enqLog, deqLog, others>>

\* The body of start_worker's loop after dequeue: try _process_item, except
\* Exception (logged, not re-raised), finally task_done.
start_worker ==
    /\ wpc = "process"
    /\ LET res == process_item(item[1])
           done == task_done(unfinished)
       IN  /\ sink' = IF res.outcome = "event" THEN Append(sink, res.event) ELSE sink
           /\ worker_log' = Append(worker_log,
                                   [rid |-> item[1].rid, outcome |-> res.outcome,
                                    exc |-> res.event.exc])
           /\ unfinished' = done.n
           /\ wpc' = IF done.exc # "" THEN "crashed" ELSE "get"
    /\ item' = <<>>
    /\ UNCHANGED <<reqs, queue, enqLog, deqLog, others>>

\* ------------------------------------------------------------------------
\* Shutdown (api/main.py, lifespan after its yield)
\* ------------------------------------------------------------------------

\* worker_task.cancel(): asyncio marks the task; the CancelledError is thrown
\* into start_worker where it is suspended. start_worker has one await, the
\* dequeue, and _process_item has none.
lifespan_cancel ==
    /\ ~must_cancel
    /\ wpc \notin {"cancelled", "crashed"}
    /\ must_cancel' = TRUE
    /\ UNCHANGED <<reqs, queue, unfinished, wpc, item, sink, worker_log, enqLog, deqLog, call, pollers>>

\* Mutant: the dequeue takes the item that woke it before the cancellation
\* is raised.
dequeue_cancelled_takes ==
    /\ wpc = "waiting"
    /\ must_cancel
    /\ wpc' = "cancelled"
    /\ must_cancel' = FALSE
    /\ queue' = IF queue = <<>> THEN queue ELSE dequeue(queue).rest
    /\ deqLog' = IF queue = <<>> THEN deqLog ELSE Append(deqLog, dequeue(queue).got.rid)
    /\ UNCHANGED <<reqs, unfinished, item, sink, worker_log, enqLog, call, pollers>>

\* The suspended dequeue is resumed with CancelledError: asyncio.Queue.get
\* gives up its place among the getters and re-raises, the await in
\* start_worker is outside its try, and the task ends; lifespan's `await
\* worker_task` catches the CancelledError. An item that was put meanwhile
\* stays in the queue.
dequeue_cancelled ==
    /\ wpc = "waiting"
    /\ must_cancel
    /\ wpc' = "cancelled"
    /\ must_cancel' = FALSE
    /\ UNCHANGED <<reqs, queue, unfinished, item, sink, worker_log, enqLog, deqLog, call, pollers>>

\* dequeue() returns normally: not when the task is resumed to be cancelled.
dequeue_resume ==
    /\ ~(wpc = "waiting" /\ must_cancel)
    /\ dequeue_return

\* ------------------------------------------------------------------------
\* One call of an adapter's parse, on the payloads its fields allow
\* ------------------------------------------------------------------------

\* An optional field that the payload does not carry.
Absent == [k |-> "absent", s |-> "", kids |-> <<>>]

\* The dict of the members that are present.
Fields(members) == JObj(SelectSeq(members, LAMBDA m : m.val # Absent))

\* The list of the given values.
List(vals) == JArr([i \in 1..Len(vals) |-> Elem(vals[i])])

\* The envelopes of the OpenAI poller: incident_type and an incident of
\* which every field is optional.
OpenAIEnvelopes ==
    { Fields(<<Member("incident_type", JStr(ty)), Member("incident", inc)>>) :
        ty \in {"outage", "resolved", "new_incident"},
        inc \in {Absent} \cup
          { Fields(<<Member("title", t), Member("status", st), Member("message", m),
                     Member("components", c)>>) :
              t \in {Absent, JStr(""), JStr("API outage")},
              st \in {Absent, JStr("investigating")},
              m \in {Absent, JStr(""), JStr("Elevated errors")},
              c \in {Absent, List(<<>>),
                     List(<<Fields(<<Member("name", JStr("API"))>>)>>),
                     List(<<Fields(<<Member("name", Absent)>>)>>),
                     List(<<Fields(<<Member("name", JStr("API"))>>),
                            Fields(<<Member("name", Absent)>>)>>)} } }

\* The legacy webhook payloads of the OpenAI adapter.
OpenAILegacy ==
    { Fields(<<Member("page", pg), Member("component", cp), Member("incident", inc)>>) :
        pg \in {Absent} \cup {Fields(<<Member("name", n)>>) : n \in {Absent, JStr("OpenAI")}},
        cp \in {Absent} \cup {Fields(<<Member("name", n)>>) : n \in {Absent, JStr("API")}},
        inc \in {Absent} \cup
          { Fields(<<Member("body", b), Member("name", n)>>) :
              b \in {Absent, JStr(""), JStr("We are investigating.")},
              n \in {Absent, JStr("Elevated error rate")} } }

\* The summaries of the Discord status page.
DiscordPayloads ==
    { Fields(<<Member("page", pg), Member("status", st), Member("incidents", incs)>>) :
        pg \in {Absent} \cup {Fields(<<Member("name", n)>>) : n \in {Absent, JStr("Discord")}},
        st \in { Absent, Fields(<<Member("indicator", Absent)>>),
                 Fields(<<Member("indicator", JStr("none")),
                          Member("description", JStr("All Systems Operational"))>>),
                 Fields(<<Member("indicator", JStr("minor")),
                          Member("description", JStr("Minor Service Outage"))>>),
                 Fields(<<Member("indicator", JStr("major")),
                          Member("description", JStr("Partial System Outage"))>>),
                 Fields(<<Member("indicator", JStr("critical")),
                          Member("description", JStr("Major Service Outage"))>>) },
        incs \in {Absent, List(<<>>)} \cup
          { List(<<Fields(<<Member("name", n), Member("incident_updates", u)>>)>>) :
              n \in {Absent, JStr(""), JStr("API latency")},
              u \in {Absent, List(<<>>), List(<<Fields(<<Member("body", Absent)>>)>>),
                     List(<<Fields(<<Member("body", JStr(""))>>)>>),
                     List(<<Fields(<<Member("body", JStr("Investigating."))>>)>>)} } }

\* The services of Apple's system status.
AppleServices ==
    { Fields(<<Member("serviceName", n), Member("events", ev)>>) :
        n \in {Absent, JStr("iCloud Mail")},
        ev \in {Absent, List(<<>>)} \cup
          { List(<<Fields(<<Member("statusType", ty), Member("eventStatus", es),
                           Member("usersAffected", us)>>)>>) :
              ty \in {Absent, JStr("Outage")},
              es \in {Absent, JStr("resolved")},
              us \in {Absent, JStr(""), JStr("Some users")} } }

\* The envelopes of the Apple scraper.
ApplePayloads ==
    { Fields(<<Member("provider", JStr("apple")), Member("data", d)>>) :
        d \in {Absent, JNull, Fields(<<Member("services", Absent)>>),
               Fields(<<Member("services", List(<<>>))>>)} \cup
          { Fields(<<Member("services", List(<<svc>>))>>) : svc \in AppleServices } \cup
          { Fields(<<Member("services", List(<<mail, store>>))>>) :
              mail \in { Fields(<<Member("serviceName", JStr("iCloud Mail")),
                                  Member("events", ev)>>) :
                           ev \in {List(<<>>), List(<<Fields(<<Member("statusType",
                                                                      JStr("Outage"))>>)>>)} },
              store \in { Fields(<<Member("serviceName", JStr("App Store")),
                                   Member("events", ev)>>) :
                            ev \in {Absent, List(<<>>),
                                    List(<<Fields(<<Member("eventStatus",
                                                           JStr("resolved"))>>)>>)} } } }

\* The calls: an adapter and a payload of its source.
AdapterCalls ==
    ({"openai"} \X ({EmptyDict} \cup OpenAIEnvelopes \cup OpenAILegacy))
    \cup ({"discord"} \X ({EmptyDict} \cup DiscordPayloads))
    \cup ({"apple"} \X ({EmptyDict} \cup ApplePayloads))

NoCall == [adapter |-> "", payload |-> JNull, done |-> FALSE, result |-> Raised("")]

\* ADAPTER_REGISTRY[provider].parse(payload)
parse ==
    /\ call.adapter \in ADAPTER_REGISTRY
    /\ ~call.done
    /\ call' = [call EXCEPT !.done = TRUE,
                            !.result = adapter_parse(call.adapter, call.payload)]
    /\ UNCHANGED <<reqs, queue, unfinished, wpc, item, sink, worker_log, enqLog, deqLog,
                   must_cancel, pollers>>

\* ------------------------------------------------------------------------
\* Pollers (producers/*.py): what they share
\* ------------------------------------------------------------------------

MAX_CONSECUTIVE_ERRORS == 5

LParen == Tok("(", "")
RParen == Tok(")", "")

\* The bytes of a status page's listing {"<key>": [item, ...]}.
RECURSIVE Joined(_)
Joined(items) ==
    IF Len(items) = 1 THEN items[1] ELSE items[1] \o <<Comma>> \o Joined(Tail(items))
Listing(key, items) ==
    <<LBrace, S(key), Colon, LBrack>> \o Joined(items) \o <<RBrack, RBrace>>

\* One entry of OpenAI's components.json and one of its incidents.json, with
\* the fields the poller reads.
ComponentBytes(name, status, group) ==
    <<LBrace, S("name"), Colon, S(name), Comma, S("status"), Colon, S(status), Comma,
      S("group"), Colon, B(group), RBrace>>
IncidentBytes(id, name, status, impact, updated_at) ==
    <<LBrace, S("id"), Colon, S(id), Comma, S("name"), Colon, S(name), Comma,
      S("status"), Colon, S(status), Comma, S("impact"), Colon, S(impact), Comma,
      S("updated_at"), Colon, S(updated_at), RBrace>>

\* The bodies the remote status sources serve, by name.
RemoteBytes(content) ==
    CASE content = "apple_ok" ->
            <<LBrace, S("services"), Colon, LBrack, RBrack, RBrace>>
      [] content = "apple_jsonp" ->
            <<Word("jsonCallback"), LParen, LBrace, S("services"), Colon, LBrack,
              LBrace, S("serviceName"), Colon, S("iCloud Mail"), Comma,
              S("events"), Colon, LBrack, LBrace, S("statusType"), Colon, S("Outage"),
              RBrace, RBrack, RBrace, RBrack, RBrace, RParen, Word(";")>>
      [] content = "html" -> <<Word("<html>"), Word("Service"), Word("Unavailable")>>
      [] content = "discord_ok" -> Body_discord
      [] content = "discord_minor" ->
            <<LBrace, S("status"), Colon, LBrace, S("indicator"), Colon, S("minor"), RBrace,
              RBrace>>
      [] content = "list" -> Body_list
      [] content = "comp_ok" ->
            <<LBrace, S("components"), Colon, LBrack,
              LBrace, S("name"), Colon, S("API"), Comma,
              S("status"), Colon, S("operational"), RBrace, RBrack, RBrace>>
      [] content = "comp_degraded" ->
            <<LBrace, S("components"), Colon, LBrack,
              LBrace, S("name"), Colon, S("API"), Comma,
              S("status"), Colon, S("degraded_performance"), RBrace, RBrack, RBrace>>
      [] content = "inc_none" -> <<LBrace, S("incidents"), Colon, LBrack, RBrack, RBrace>>
      [] content = "inc_one" ->
            <<LBrace, S("incidents"), Colon, LBrack,
              LBrace, S("id"), Colon, S("i1"), Comma, S("name"), Colon, S("API outage"), Comma,
              S("status"), Colon, S("investigating"), Comma,
              S("impact"), Colon, S("critical"), Comma,
              S("updated_at"), Colon, S("t1"), RBrace, RBrack, RBrace>>
      \* two components and the group they belong to
      [] content = "page_ok" ->
            Listing("components",
                    <<ComponentBytes("API", "operational", "false"),
                      ComponentBytes("ChatGPT", "operational", "false"),
                      ComponentBytes("Models", "operational", "true")>>)
      [] content = "page_degraded" ->
            Listing("components",
                    <<ComponentBytes("API", "degraded_performance", "false"),
                      ComponentBytes("ChatGPT", "operational", "false"),
                      ComponentBytes("Models", "partial_outage", "true")>>)
      [] content = "page_outage" ->
            Listing("components",
                    <<ComponentBytes("API", "major_outage", "false"),
                      ComponentBytes("ChatGPT", "under_maintenance", "false"),
                      ComponentBytes("Models", "operational", "true")>>)
      [] content = "page_partial" ->
            Listing("components",
                    <<ComponentBytes("API", "partial_outage", "false"),
                      ComponentBytes("ChatGPT", "unknown", "false"),
                      ComponentBytes("Models", "partial_outage", "true")>>)
      \* ChatGPT is gone from the list
      [] content = "page_less" ->
            Listing("components",
                    <<ComponentBytes("API", "degraded_performance", "false"),
                      ComponentBytes("Models", "partial_outage", "true")>>)
      \* the life of incident i1, with i2 and i3 beside it
      [] content = "inc_later" ->
            Listing("incidents",
                    <<IncidentBytes("i1", "API outage", "identified", "critical", "t2")>>)
      [] content = "inc_two" ->
            Listing("incidents",
                    <<IncidentBytes("i1", "API outage", "investigating", "critical", "t1"),
                      IncidentBytes("i2", "Sora unavailable", "investigating", "major",
                                    "t1")>>)
      [] content = "inc_closing" ->
            Listing("incidents",
                    <<IncidentBytes("i1", "API outage", "resolved", "critical", "t3"),
                      IncidentBytes("i2", "Sora unavailable", "monitoring", "major",
                                    "t2")>>)
      [] content = "inc_other" ->
            Listing("incidents",
                    <<IncidentBytes("i3", "High latency", "investigating", "none", "t1")>>)

RemoteContents ==
    {"apple_ok", "apple_jsonp", "html", "discord_ok", "discord_minor", "list",
     "comp_ok", "comp_degraded", "inc_none", "inc_one",
     "page_ok", "page_degraded", "page_outage", "page_partial", "page_less",
     "inc_later", "inc_two", "inc_closing", "inc_other"}

\* response.json(): json.loads of the body, worked out once per body.
response_json_table == [content \in RemoteContents |-> json_loads(RemoteBytes(content))]
response_json(content) == response_json_table[content]

\* hashlib.md5(data).hexdigest(): equal for equal bytes, taken to differ for
\* different bytes, and never the empty string (which is <<>> here).
md5(data) == <<data>>

\* The outcome of `await client.get(...)` or `await client.post(...)`: the
\* exception httpx raised, or a response.
Failure(exc) ==
    [exc |-> exc, status_code |-> 0, content |-> "", etag |-> "", last_modified |-> ""]
Response(status_code, content, etag, last_modified) ==
    [exc |-> "", status_code |-> status_code, content |-> content, etag |-> etag,
     last_modified |-> last_modified]

\* What the network can do to a request.
RequestFailures == {Failure("ConnectError"), Failure("TimeoutException")}

\* The validators a source sends with a 200: none, or an ETag with a
\* Last-Modified date.
NoValidators == <<"", "">>
Validators == {NoValidators, <<"W/1", "Mon">>, <<"W/2", "Tue">>}

\* The responses of a source that serves the given bodies with the given
\* validators; 304 answers a conditional request only.
Responses(bodies, validators, conditional) ==
    RequestFailures
    \cup {Response(503, "html", "", "")}
    \cup (IF conditional THEN {Response(304, "", "", "")} ELSE {})
    \cup {Response(200, b, v[1], v[2]) : b \in bodies, v \in validators}

\* What a finished cycle is remembered by: how each request ended and which
\* body it was answered with.
Seen(response) ==
    [exc |-> response.exc, status_code |-> response.status_code,
     content |-> response.content]

\* The gateway's part in a forward: "" when it answers 2xx, else the
\* exception that client.post or raise_for_status raises.
GatewayOutcomes == {"", "HTTPStatusError", "ConnectError"}

\* response.headers.get(name, default)
headers_get(value, default) == IF value # "" THEN value ELSE default

\* Mutant: the poller stops only when the threshold is exceeded.
exit_check_late(consecutive_errors) ==
    IF consecutive_errors > MAX_CONSECUTIVE_ERRORS THEN "exited" ELSE "loop"

\* The end of every poller's loop body: sys.exit(1) at the threshold, else
\* sleep and loop.
exit_check(consecutive_errors) ==
    IF consecutive_errors >= MAX_CONSECUTIVE_ERRORS THEN "exited" ELSE "loop"

\* The record of a finished cycle: the failing cycles since the last one
\* that did not fail, whether a cycle has succeeded, whether a success has
\* come after MAX_CONSECUTIVE_ERRORS - 1 failures in a row, and the cycle
\* itself.
Finished(r, responses, exc, sent) ==
    [r EXCEPT !.streak = IF exc = "" THEN 0 ELSE @ + 1,
              !.succeeded = @ \/ exc = "",
              !.spared = @ \/ (exc = "" /\ r.streak = MAX_CONSECUTIVE_ERRORS - 1),
              !.last = [responses |-> responses, exc |-> exc, sent |-> sent]]

\* The record of a poller that has not run a cycle; `feed` names what
\* OpenAI's status page serves while the poller runs.
NoPoller ==
    [poller |-> "", feed |-> "basic", pc |-> "loop", streak |-> 0, succeeded |-> FALSE, spared |-> FALSE,
     last |-> [responses |-> <<>>, exc |-> "", sent |-> <<>>]]

\* ------------------------------------------------------------------------
\* Apple scraper (producers/apple_scraper.py)
\* ------------------------------------------------------------------------

\* text.find("(") and text.rfind(")"): 0 when there is none.
find_paren(text) ==
    IF \E i \in 1..Len(text) : text[i].t = "("
    THEN CHOOSE i \in 1..Len(text) :
            text[i].t = "(" /\ \A j \in 1..(i - 1) : text[j].t # "("
    ELSE 0
rfind_paren(text) ==
    IF \E i \in 1..Len(text) : text[i].t = ")"
    THEN CHOOSE i \in 1..Len(text) :
            text[i].t = ")" /\ \A j \in (i + 1)..Len(text) : text[j].t # ")"
    ELSE 0

\* _extract_json(text): plain JSON, else the inside of callback(...), else
\* None; it never raises.
extract_json(text) ==
    LET plain == json_loads(text)
        start == find_paren(text)
        end == rfind_paren(text)
    IN  IF plain.exc = "" THEN plain.val
        ELSE IF start # 0 /\ end # 0 /\ end > start
        THEN json_loads(SubSeq(text, start + 1, end - 1)).val
        ELSE JNull

AppleInit == [last_hash |-> <<>>, consecutive_errors |-> 0]

AppleBodies == {"apple_ok", "apple_jsonp", "html"}

\* One pass of scrape_apple_status's loop body, from the GET to the except
\* clauses: the new locals, the exception that ended the try block ("" if
\* none) and what the gateway accepted.
apple_cycle(st, response, gateway) ==
    LET \* client.get raised, or raise_for_status did
        failed == response.exc # "" \/ response.status_code # 200
        data == extract_json(RemoteBytes(response.content))
        current_hash == md5(RemoteBytes(response.content))
        changed == ~failed /\ current_hash # st.last_hash
        envelope == JObj(<<Member("provider", JStr("apple")), Member("data", data)>>)
        exc == IF response.exc # "" THEN response.exc
               ELSE IF failed THEN "HTTPStatusError"
               ELSE IF changed THEN gateway ELSE ""
    IN  [last_hash |-> IF changed THEN current_hash ELSE st.last_hash,
         consecutive_errors |-> IF exc = "" THEN 0 ELSE st.consecutive_errors + 1,
         exc |-> exc,
         sent |-> IF changed /\ gateway = "" THEN <<envelope>> ELSE <<>>]

scrape_apple_status ==
    /\ run.poller = "apple"
    /\ run.pc = "loop"
    /\ \E response \in Responses(AppleBodies, {NoValidators}, FALSE),
          gateway \in GatewayOutcomes :
          LET c == apple_cycle(apple, response, gateway)
          IN  /\ apple' = [last_hash |-> c.last_hash,
                           consecutive_errors |-> c.consecutive_errors]
              /\ run' = [Finished(run, <<Seen(response)>>, c.exc, c.sent)
                           EXCEPT !.pc = exit_check(c.consecutive_errors)]
    /\ UNCHANGED <<reqs, queue, unfinished, wpc, item, sink, worker_log, enqLog, deqLog,
                   must_cancel, call, discord, openai>>

\* ------------------------------------------------------------------------
\* Discord poller (producers/discord_poller.py)
\* ------------------------------------------------------------------------

DiscordInit == [last_etag |-> "", last_modified |-> "", consecutive_errors |-> 0]

DiscordBodies == {"discord_ok", "discord_minor", "html", "list"}

\* One pass of poll_discord_status's loop body. What is sent is the raw
\* body (content=response.content), not the parsed payload.
discord_cycle(st, response, gateway) ==
    LET ok200 == response.exc = "" /\ response.status_code = 200
        \* payload = response.json()
        parsed == response_json(response.content)
        \* payload.get('status', {}).get('indicator', 'unknown') in the log line
        indicator == py_get(py_get(parsed.val, "status", EmptyDict), "indicator",
                            JStr("unknown"))
        exc == IF response.exc # "" THEN response.exc
               ELSE IF ~ok200 THEN ""
               ELSE IF parsed.exc # "" THEN parsed.exc
               ELSE IF IsExc(indicator) THEN indicator.s
               ELSE gateway
    IN  [last_etag |-> IF ok200 THEN headers_get(response.etag, st.last_etag)
                       ELSE st.last_etag,
         last_modified |-> IF ok200 THEN headers_get(response.last_modified, st.last_modified)
                           ELSE st.last_modified,
         consecutive_errors |-> IF exc = "" THEN 0 ELSE st.consecutive_errors + 1,
         exc |-> exc,
         sent |-> IF ok200 /\ exc = "" THEN <<RemoteBytes(response.content)>> ELSE <<>>]

poll_discord_status ==
    /\ run.poller = "discord"
    /\ run.pc = "loop"
    /\ \E response \in Responses(DiscordBodies, Validators,
                                  discord.last_etag # "" \/ discord.last_modified # ""),
          gateway \in GatewayOutcomes :
          LET c == discord_cycle(discord, response, gateway)
          IN  /\ discord' = [last_etag |-> c.last_etag, last_modified |-> c.last_modified,
                             consecutive_errors |-> c.consecutive_errors]
              /\ run' = [Finished(run, <<Seen(response)>>, c.exc, c.sent)
                           EXCEPT !.pc = exit_check(c.consecutive_errors)]
    /\ UNCHANGED <<reqs, queue, unfinished, wpc, item, sink, worker_log, enqLog, deqLog,
                   must_cancel, call, apple, openai>>

\* ------------------------------------------------------------------------
\* OpenAI poller (producers/openai_poller.py)
\* ------------------------------------------------------------------------

\* Mutant: a partial outage is reported as a degradation.
map_component_type_partial(status) ==
    CASE status = "operational" -> "resolved"
      [] status \in {"degraded_performance", "partial_outage"} -> "degradation"
      [] status = "major_outage" -> "outage"
      [] status = "under_maintenance" -> "maintenance"
      [] OTHER -> "unknown"

\* _map_component_type(status)
map_component_type(status) ==
    CASE status = "operational" -> "resolved"
      [] status = "degraded_performance" -> "degradation"
      [] status = "partial_outage" -> "outage"
      [] status = "major_outage" -> "outage"
      [] status = "under_maintenance" -> "maintenance"
      [] OTHER -> "unknown"

\* any(kw in title_lower for kw in (...)): substring search, tabulated on the
\* lower-cased titles of the model.
outage_keyword(title_lower) ==
    title_lower \in {"api outage", "chatgpt is down", "sora unavailable",
                     "outage: elevated errors"}
degraded_keyword(title_lower) ==
    title_lower \in {"degraded performance", "elevated error rate", "high latency",
                     "outage: elevated errors"}

\* Mutant: the impact decides before any title keyword is looked at.
classify_incident_impact_first(incident) ==
    LET impact == lower(py_get(incident, "impact", JStr("")).s)
        title_lower == lower(py_get(incident, "name", JStr("")).s)
    IN  IF lower(py_get(incident, "status", JStr("")).s) = "resolved" THEN "resolved"
        ELSE IF impact = "critical" THEN "outage"
        ELSE IF impact = "major" THEN "degradation"
        ELSE IF outage_keyword(title_lower) THEN "outage"
        ELSE IF degraded_keyword(title_lower) THEN "degradation"
        ELSE "new_incident"

\* _classify_incident(incident): status, impact and name are strings here.
classify_incident(incident) ==
    LET impact == lower(py_get(incident, "impact", JStr("")).s)
        title_lower == lower(py_get(incident, "name", JStr("")).s)
    IN  IF lower(py_get(incident, "status", JStr("")).s) = "resolved" THEN "resolved"
        ELSE IF impact = "critical" \/ outage_keyword(title_lower) THEN "outage"
        ELSE IF impact = "major" \/ degraded_keyword(title_lower) THEN "degradation"
        ELSE "new_incident"

OpenAIInit ==
    [comp_etag |-> "", comp_modified |-> "", inc_etag |-> "", inc_modified |-> "",
     last_comp_body_hash |-> <<>>, last_inc_body_hash |-> <<>>,
     last_component_statuses |-> <<>>, last_incident_hashes |-> <<>>,
     first_run |-> TRUE, consecutive_errors |-> 0]

\* The try block in progress: the locals, the exception that ended it ("" so
\* far), the envelopes the gateway accepted, and which forward of the cycle
\* the gateway fails (0: none).
Try(st, fail_at) == [st |-> st, exc |-> "", sent |-> <<>>, fail_at |-> fail_at]

raise(t, exc) == IF t.exc # "" THEN t ELSE [t EXCEPT !.exc = exc]

\* await _forward(client, envelope): the post, then raise_for_status.
forward(t, envelope) ==
    IF t.exc # "" THEN t
    ELSE IF Len(t.sent) + 1 = t.fail_at THEN [t EXCEPT !.exc = "HTTPStatusError"]
    ELSE [t EXCEPT !.sent = Append(@, envelope)]

\* d.get(key) on a dict of the poller (a sequence of key and value).
HasEntry(d, key) == \E i \in 1..Len(d) : d[i].key = key
Entry(d, key) == d[CHOOSE i \in 1..Len(d) : d[i].key = key].val

\* `for x in v` over what .get("components", []) or .get("incidents", [])
\* gave: the elements of a list; nothing for an empty container; else the
\* loop fails (the keys of a dict have no .get, None is not iterable).
iter_exc(v) ==
    IF IsExc(v) THEN v.s
    ELSE IF v.k = "arr" \/ (~py_truthy(v) /\ v.k \in {"obj", "str"}) THEN ""
    ELSE IF v.k \in {"obj", "str"} THEN "AttributeError"
    ELSE "TypeError"

\* current[c.get("name", "?")] = c.get("status", "operational") for every
\* component that is not a group (no body of the model has groups).
RECURSIVE component_statuses(_, _)
component_statuses(kids, current) ==
    IF kids = <<>> THEN [exc |-> "", current |-> current]
    ELSE LET c == kids[1].val
             name == py_get(c, "name", JStr("?"))
             status == py_get(c, "status", JStr("operational"))
         IN  IF IsExc(name) THEN [exc |-> name.s, current |-> current]
             ELSE IF py_truthy(py_get(c, "group", JNull))
             THEN component_statuses(Tail(kids), current)
             ELSE component_statuses(Tail(kids), DictSet(current, name.s, status.s))

\* The envelope of a component whose status changed (the dash of its title
\* is written " - ").
component_envelope(name, old, status) ==
    JObj(<<Member("provider", JStr("openai")),
           Member("incident_type", JStr(map_component_type(status))),
           Member("incident",
                  JObj(<<Member("title", JStr(name \o " - " \o replace_title(status))),
                         Member("status", JStr(status)),
                         Member("impact", JStr("component_change")),
                         Member("message",
                                JStr(name \o " changed from " \o replace_title(old)
                                     \o " to " \o replace_title(status) \o ".")),
                         Member("components",
                                List(<<JObj(<<Member("name", JStr(name)),
                                              Member("status", JStr(status))>>)>>))>>))>>)

\* Mutant: a component without recorded status counts as changed.
RECURSIVE forward_component_changes_new(_, _)
forward_component_changes_new(t, current) ==
    IF current = <<>> \/ t.exc # "" THEN t
    ELSE LET name == current[1].key
             status == current[1].val
             last == t.st.last_component_statuses
             old == IF HasEntry(last, name) THEN Entry(last, name) ELSE ""
         IN  forward_component_changes_new(
                IF status # old
                THEN forward(t, component_envelope(name, old, status))
                ELSE t,
                Tail(current))

\* for name, status in current.items(): forward the changed ones.
RECURSIVE forward_component_changes(_, _)
forward_component_changes(t, current) ==
    IF current = <<>> \/ t.exc # "" THEN t
    ELSE LET name == current[1].key
             status == current[1].val
             last == t.st.last_component_statuses
             old == IF HasEntry(last, name) THEN Entry(last, name) ELSE ""
         IN  forward_component_changes(
                IF old # "" /\ status # old
                THEN forward(t, component_envelope(name, old, status))
                ELSE t,
                Tail(current))

\* The components half of the try block.
poll_components(t, response) ==
    IF response.exc # "" THEN raise(t, response.exc)
    ELSE IF response.status_code # 200 THEN t
    ELSE LET body_hash == md5(RemoteBytes(response.content))
             t1 == [t EXCEPT !.st.comp_etag = headers_get(response.etag, @),
                             !.st.comp_modified = headers_get(response.last_modified, @)]
         IN  IF body_hash = t.st.last_comp_body_hash THEN t1
             ELSE LET t2 == [t1 EXCEPT !.st.last_comp_body_hash = body_hash]
                      comp_data == response_json(response.content)
                      components == py_get(comp_data.val, "components", EmptyList)
                      cur == component_statuses(components.kids, <<>>)
                  IN  IF comp_data.exc # "" THEN raise(t2, comp_data.exc)
                      ELSE IF iter_exc(components) # "" THEN raise(t2, iter_exc(components))
                      ELSE IF cur.exc # "" THEN raise(t2, cur.exc)
                      ELSE LET t3 == IF t2.st.first_run THEN t2
                                     ELSE forward_component_changes(t2, cur.current)
                           IN  IF t3.exc # "" THEN t3
                               ELSE [t3 EXCEPT !.st.last_component_statuses = cur.current]

\* The envelope of a new or updated incident.
incident_envelope(inc, inc_type) ==
    LET updates == py_get(inc, "incident_updates", EmptyList)
        message == IF py_truthy(updates) THEN py_get(py_first(updates), "body", JStr(""))
                   ELSE JStr("")
        comps == py_get(inc, "components", EmptyList)
        affected == [i \in 1..Len(comps.kids) |->
                        Elem(JObj(<<Member("name", py_get(comps.kids[i].val, "name", JStr("?"))),
                                    Member("status",
                                           py_get(comps.kids[i].val, "status", JStr("?")))>>))]
    IN  JObj(<<Member("provider", JStr("openai")),
               Member("incident_type", JStr(inc_type)),
               Member("incident",
                      JObj(<<Member("title", py_get(inc, "name", JStr("Unknown"))),
                             Member("status", py_get(inc, "status", JStr("unknown"))),
                             Member("impact", py_get(inc, "impact", JStr("none"))),
                             Member("message", message),
                             Member("components", JArr(affected))>>))>>)

\* Mutant: an incident that is gone is announced as an update.
resolved_envelope_update ==
    JObj(<<Member("provider", JStr("openai")),
           Member("incident_type", JStr("update")),
           Member("incident",
                  JObj(<<Member("title", JStr("Incident Resolved")),
                         Member("status", JStr("resolved")),
                         Member("impact", JStr("none")),
                         Member("message", JStr("This incident has been resolved.")),
                         Member("components", EmptyList)>>))>>)

\* The envelope of an incident that is no longer among the unresolved.
resolved_envelope ==
    JObj(<<Member("provider", JStr("openai")),
           Member("incident_type", JStr("resolved")),
           Member("incident",
                  JObj(<<Member("title", JStr("Incident Resolved")),
                         Member("status", JStr("resolved")),
                         Member("impact", JStr("none")),
                         Member("message", JStr("This incident has been resolved.")),
                         Member("components", EmptyList)>>))>>)

\* for inc in inc_data.get("incidents", []): the unresolved incidents are
\* recorded in current_hashes under md5(f"{inc_id}:{updated_at}"), and after
\* the first run the new and the changed ones are forwarded.
RECURSIVE incidents_loop(_, _, _)
incidents_loop(t, kids, current_hashes) ==
    IF t.exc # "" \/ kids = <<>> THEN [t |-> t, current_hashes |-> current_hashes]
    ELSE LET inc == kids[1].val
             inc_id == py_get(inc, "id", JStr(""))
             inc_status == py_get(inc, "status", JStr("unknown"))
             updated_at == py_get(inc, "updated_at", JStr(""))
             content_hash == md5(<<py_format(inc_id), ":", py_format(updated_at)>>)
             hashes == DictSet(current_hashes, inc_id.s, content_hash)
             last == t.st.last_incident_hashes
         IN  IF IsExc(inc_id) THEN [t |-> raise(t, inc_id.s), current_hashes |-> current_hashes]
             ELSE IF inc_status = JStr("resolved")
             THEN incidents_loop(t, Tail(kids), current_hashes)
             ELSE IF t.st.first_run THEN incidents_loop(t, Tail(kids), hashes)
             ELSE IF ~HasEntry(last, inc_id.s)
             THEN incidents_loop(forward(t, incident_envelope(inc, classify_incident(inc))),
                                 Tail(kids), hashes)
             ELSE IF Entry(last, inc_id.s) # content_hash
             THEN incidents_loop(forward(t, incident_envelope(inc, "update")),
                                 Tail(kids), hashes)
             ELSE incidents_loop(t, Tail(kids), hashes)

\* for old_id in last_incident_hashes: forward "resolved" for those gone.
RECURSIVE forward_resolved(_, _, _)
forward_resolved(t, last, current_hashes) ==
    IF last = <<>> \/ t.exc # "" THEN t
    ELSE forward_resolved(IF HasEntry(current_hashes, last[1].key) THEN t
                          ELSE forward(t, resolved_envelope),
                          Tail(last), current_hashes)

\* The incidents half of the try block, with its last two statements.
poll_incidents(t, response) ==
    IF t.exc # "" THEN t
    ELSE IF response.exc # "" THEN raise(t, response.exc)
    ELSE IF response.status_code # 200 THEN t
    ELSE LET body_hash == md5(RemoteBytes(response.content))
             t1 == [t EXCEPT !.st.inc_etag = headers_get(response.etag, @),
                             !.st.inc_modified = headers_get(response.last_modified, @)]
         IN  IF body_hash = t.st.last_inc_body_hash THEN t1
             ELSE LET t2 == [t1 EXCEPT !.st.last_inc_body_hash = body_hash]
                      inc_data == response_json(response.content)
                      incidents == py_get(inc_data.val, "incidents", EmptyList)
                      looped == incidents_loop(t2, incidents.kids, <<>>)
                      t3 == IF t2.st.first_run THEN looped.t
                            ELSE forward_resolved(looped.t, t2.st.last_incident_hashes,
                                                  looped.current_hashes)
                  IN  IF inc_data.exc # "" THEN raise(t2, inc_data.exc)
                      ELSE IF iter_exc(incidents) # "" THEN raise(t2, iter_exc(incidents))
                      ELSE IF t3.exc # "" THEN t3
                      ELSE [t3 EXCEPT !.st.last_incident_hashes = looped.current_hashes]

\* The last two statements of the try block, or the except clause that was
\* reached; `requests` is the number of GETs the cycle made.
end_of_cycle(t, requests) ==
    [st |-> IF t.exc = ""
            THEN [t.st EXCEPT !.first_run = FALSE, !.consecutive_errors = 0]
            ELSE [t.st EXCEPT !.consecutive_errors = @ + 1],
     exc |-> t.exc, sent |-> t.sent, requests |-> requests]

\* Mutant: first_run is cleared before the endpoints are polled.
openai_cycle_no_seeding(st, comp_resp, inc_resp, fail_at) ==
    CHOOSE c \in {end_of_cycle(poll_incidents(half, inc_resp), IF half.exc = "" THEN 2 ELSE 1) :
                    half \in {poll_components(Try([st EXCEPT !.first_run = FALSE], fail_at),
                                              comp_resp)}} : TRUE

\* One pass of poll_openai_status's loop body, from the first GET to the
\* except clauses: the components half, then the incidents half on what the
\* first left.
openai_cycle(st, comp_resp, inc_resp, fail_at) ==
    CHOOSE c \in {end_of_cycle(poll_incidents(half, inc_resp), IF half.exc = "" THEN 2 ELSE 1) :
                    half \in {poll_components(Try(st, fail_at), comp_resp)}} : TRUE

\* The bodies of the two endpoints: the basic feed, a feed whose components
\* change, and a feed whose incidents come, change and go.
OpenAIComponents(feed) ==
    CASE feed = "components" ->
            {"page_ok", "page_degraded", "page_outage", "page_partial", "page_less"}
      [] feed = "incidents" -> {"comp_ok"}
      [] OTHER -> {"comp_ok", "comp_degraded", "html"}
OpenAIIncidents(feed) ==
    CASE feed = "components" -> {"inc_none"}
      [] feed = "incidents" ->
            {"inc_none", "inc_one", "inc_later", "inc_two", "inc_closing", "inc_other"}
      [] OTHER -> {"inc_none", "inc_one", "html"}
\* (the changing feeds are served without validators)
OpenAIValidators(feed) ==
    IF feed = "basic" THEN {NoValidators, <<"W/1", "Mon">>} ELSE {NoValidators}

\* What the two endpoints answer in one cycle: in every cycle one of them
\* answers 200 with a well-formed body and no validators, the other anything.
OpenAIAnswers(st, feed) ==
    LET comps == Responses(OpenAIComponents(feed), OpenAIValidators(feed),
                           st.comp_etag # "" \/ st.comp_modified # "")
        incs == Responses(OpenAIIncidents(feed), OpenAIValidators(feed),
                          st.inc_etag # "" \/ st.inc_modified # "")
        plain(r) == r.status_code = 200 /\ r.content # "html" /\ r.etag = ""
    IN  {a \in comps \X incs : plain(a[1]) \/ plain(a[2])}

poll_openai_status ==
    /\ run.poller = "openai"
    /\ run.pc = "loop"
    /\ \E a \in OpenAIAnswers(openai, run.feed) :
          \E fail_at \in 0..Len(openai_cycle(openai, a[1], a[2], 0).sent) :
          \E c \in {openai_cycle(openai, a[1], a[2], fail_at)} :
              /\ openai' = c.st
              /\ run' = [Finished(run, SubSeq(<<Seen(a[1]), Seen(a[2])>>, 1, c.requests),
                                  c.exc, c.sent)
                           EXCEPT !.pc = exit_check(c.st.consecutive_errors)]
    /\ UNCHANGED <<reqs, queue, unfinished, wpc, item, sink, worker_log, enqLog, deqLog,
                   must_cancel, call, apple, discord>>

\* ------------------------------------------------------------------------
\* One call of _classify_incident (producers/openai_poller.py)
\* ------------------------------------------------------------------------

\* The incidents _classify_incident is called on: impact, name and status
\* are optional strings.
ClassifyInputs ==
    { Fields(<<Member("impact", im), Member("name", n), Member("status", st)>>) :
        im \in {Absent, JStr("critical"), JStr("Critical"), JStr("major"), JStr("minor"),
                JStr("none")},
        n \in {Absent, JStr("API outage"), JStr("API OUTAGE"), JStr("ChatGPT is down"),
               JStr("Sora unavailable"), JStr("Degraded performance"),
               JStr("Elevated error rate"), JStr("High latency"), JStr("Login issues"),
               JStr("Outage: elevated errors")},
        st \in {Absent, JStr("investigating"), JStr("resolved"), JStr("Resolved")} }

\* _classify_incident(inc)
classify ==
    /\ call.adapter = "_classify_incident"
    /\ ~call.done
    /\ call' = [call EXCEPT !.done = TRUE, !.result = classify_incident(call.payload)]
    /\ UNCHANGED <<reqs, queue, unfinished, wpc, item, sink, worker_log, enqLog, deqLog,
                   must_cancel, pollers>>

\* ------------------------------------------------------------------------
\* Specification
\* ------------------------------------------------------------------------

\* The service after start-up: nothing requested, the worker task created.
ServiceInit ==
    /\ reqs = <<>>
    /\ queue = <<>>
    /\ unfinished = 0
    /\ wpc = "get"
    /\ item = <<>>
    /\ sink = <<>>
    /\ worker_log = <<>>
    /\ enqLog = <<>>
    /\ deqLog = <<>>
    /\ must_cancel = FALSE

\* No poller runs beside the service.
PollersIdle ==
    /\ apple = AppleInit
    /\ discord = DiscordInit
    /\ openai = OpenAIInit
    /\ run = NoPoller

Init ==
    /\ ServiceInit
    /\ call = NoCall
    /\ PollersIdle

Next ==
    \/ \E c \in Callers, inp \in Inputs : Request(c, inp)
    \/ \E r \in 1..Len(reqs) : receive_webhook(r)
    \/ dequeue_wait
    \/ dequeue_return
    \/ start_worker

Spec == Init /\ [][Next]_vars

\* ------------------------------------------------------------------------
\* The running worker, scheduled fairly
\* ------------------------------------------------------------------------

\* The number of requests of the fair specification.
MaxLive == 2

\* Its requests: three that an adapter parses, one on which it fails.
LiveInputs ==
    { Input("Discord", "discord"), Input("openai", "some"), Input("apple", "some"),
      Input("openai", "list") }

\* One client posts them, one request after the other.
LiveCallers == {"c1"}

LiveRequest(c, inp) ==
    /\ Len(reqs) < MaxLive
    /\ Request(c, inp)

LiveNext ==
    \/ \E c \in LiveCallers, inp \in LiveInputs : LiveRequest(c, inp)
    \/ \E r \in 1..Len(reqs) : receive_webhook(r)
    \/ dequeue_wait
    \/ dequeue_return
    \/ start_worker

\* The event loop runs every task that is ready: the worker task created by
\* lifespan is ready whenever dequeue() can return, and _process_item has no
\* await, so the step after a dequeue always follows.
LiveSpec ==
    /\ Init
    /\ [][LiveNext]_vars
    /\ WF_vars(dequeue_return)
    /\ WF_vars(start_worker)

\* ------------------------------------------------------------------------
\* The service with its shutdown
\* ------------------------------------------------------------------------

ShutdownNext ==
    \/ \E c \in LiveCallers, inp \in LiveInputs : LiveRequest(c, inp)
    \/ \E r \in 1..Len(reqs) : receive_webhook(r)
    \/ dequeue_wait
    \/ dequeue_resume
    \/ start_worker
    \/ lifespan_cancel
    \/ dequeue_cancelled

ShutdownSpec == Init /\ [][ShutdownNext]_vars

\* ------------------------------------------------------------------------
\* The adapters alone
\* ------------------------------------------------------------------------

AdapterInit ==
    /\ ServiceInit
    /\ PollersIdle
    /\ \E c \in AdapterCalls :
          call = [adapter |-> c[1], payload |-> c[2], done |-> FALSE, result |-> Raised("")]

AdapterNext == parse

AdapterSpec == AdapterInit /\ [][AdapterNext]_vars

\* One call of _classify_incident.
ClassifyInit ==
    /\ ServiceInit
    /\ PollersIdle
    /\ \E inc \in ClassifyInputs :
          call = [adapter |-> "_classify_incident", payload |-> inc, done |-> FALSE,
                  result |-> Raised("")]

ClassifyNext == classify

ClassifySpec == ClassifyInit /\ [][ClassifyNext]_vars

\* ------------------------------------------------------------------------
\* A poller alone: each is a process of its own, started with fresh locals
\* ------------------------------------------------------------------------

PollerInit ==
    /\ ServiceInit
    /\ call = NoCall
    /\ apple = AppleInit
    /\ discord = DiscordInit
    /\ openai = OpenAIInit
    /\ \E p \in {"apple", "discord", "openai"} : run = [NoPoller EXCEPT !.poller = p]

PollerNext ==
    \/ scrape_apple_status
    \/ poll_discord_status
    \/ poll_openai_status

PollerSpec == PollerInit /\ [][PollerNext]_vars

\* The OpenAI poller alone, on a status page whose components change or
\* whose incidents come and go.
StatusPageInit ==
    /\ ServiceInit
    /\ call = NoCall
    /\ apple = AppleInit
    /\ discord = DiscordInit
    /\ openai = OpenAIInit
    /\ \E feed \in {"components", "incidents"} :
          run = [NoPoller EXCEPT !.poller = "openai", !.feed = feed]

StatusPageSpec == StatusPageInit /\ [][poll_openai_status]_vars

\* ------------------------------------------------------------------------
\* Properties
\* ------------------------------------------------------------------------

\* The identities of the items in a sequence of items.
Rids(q) == [i \in 1..Len(q) |-> q[i].rid]

Done(r) == r \in 1..Len(reqs) /\ reqs[r].response.status_code # 0

\* C1: dequeue returns items in the order they were enqueued: the k-th
\* completed dequeue returned the k-th enqueued item.
C1_Fifo ==
    \A k \in 1..Len(deqLog) : k <= Len(enqLog) /\ deqLog[k] = enqLog[k]

\* Two dequeues done, a third item enqueued, and the enqueue order is not
\* the order in which the requests arrived.
C1_Witness ==
    /\ Len(deqLog) = 2
    /\ Len(enqLog) = 3
    /\ enqLog[1] # 1

\* C2: qsize() is the number of completed enqueues minus the number of
\* completed dequeues, 0 for a new queue, and the worker's task_done() step
\* leaves it unchanged.
C2_Qsize ==
    /\ qsize(queue) = 0
    /\ [](qsize(queue) = Len(enqLog) - Len(deqLog))
    /\ [][unfinished' < unfinished => qsize(queue') = qsize(queue)]_vars

\* Three enqueues, two dequeues and a task_done: one item left.
C2_Witness ==
    /\ Len(enqLog) = 3
    /\ Len(deqLog) = 2
    /\ unfinished = 2
    /\ qsize(queue) = 1

\* The request body parses as JSON.
Parses(r) == json_loads(Bytes(reqs[r].body)).exc = ""

\* C3: dequeue() on an empty queue returns nothing: the worker stays
\* suspended, holding no item, until an enqueue, after which it can resume;
\* what dequeue() returned is an enqueued item. The unbounded queue is never
\* full, which is the only condition on which enqueue() suspends its caller.
C3_DequeueSuspends ==
    /\ wpc = "waiting" => item = <<>>
    /\ (wpc \in {"get", "waiting"} /\ queue = <<>>) => ~ENABLED dequeue_return
    /\ (wpc = "waiting" /\ queue # <<>>) => ENABLED dequeue_return
    /\ wpc = "process" =>
          /\ Len(item) = 1
          /\ item[1].rid = deqLog[Len(deqLog)]
          /\ \E k \in 1..Len(enqLog) : enqLog[k] = item[1].rid
    /\ ~full(queue)

\* The worker is suspended on the empty queue for the second time while a
\* request that will enqueue is pending and another item was put before.
C3_Witness ==
    /\ wpc = "waiting"
    /\ queue = <<>>
    /\ Len(deqLog) = 1
    /\ \E r \in 1..Len(reqs) : Pending(r) /\ Parses(r)

\* C4: with concurrent callers nothing is lost or duplicated (the enqueued
\* items are exactly the dequeued ones followed by the queue's content, each
\* once) and the items of one caller are dequeued in that caller's order.
C4_NoLossNoDup ==
    /\ enqLog = deqLog \o Rids(queue)
    /\ \A i, j \in 1..Len(enqLog) : i # j => enqLog[i] # enqLog[j]
    /\ \A i, j \in 1..Len(deqLog) :
          (i < j /\ reqs[deqLog[i]].caller = reqs[deqLog[j]].caller) => deqLog[i] < deqLog[j]

\* Three items dequeued, from two callers, enqueued in another order than
\* their requests arrived in.
C4_Witness ==
    /\ Len(deqLog) = 3
    /\ \E i, j \in 1..3 : reqs[deqLog[i]].caller # reqs[deqLog[j]].caller
    /\ \E i, j \in 1..3 : i < j /\ deqLog[i] > deqLog[j]

\* What the requests of the model are to yield, written out by hand from
\* the Python semantics (str.lower, json.loads, the adapters).
ExpectedProvider(name) ==
    CASE name = "Discord" -> "discord"
      [] name = "discord" -> "discord"
      [] name = "Unknown_Svc" -> "unknown_svc"
      [] name = "apple" -> "apple"
      [] name = "openai" -> "openai"

BodyIsJson(body) == body \in {"some", "list", "discord"}

ExpectedPayload(body) ==
    CASE body = "some" -> JObj(<<Member("some", JStr("data"))>>)
      [] body = "list" -> JArr(<<>>)
      [] body = "discord" ->
            JObj(<<Member("page", JObj(<<Member("name", JStr("Discord"))>>)),
                   Member("status",
                          JObj(<<Member("indicator", JStr("none")),
                                 Member("description", JStr("All Systems Operational"))>>)),
                   Member("incidents", JArr(<<>>))>>)

ExpectedItem(r) ==
    [provider |-> ExpectedProvider(reqs[r].provider_name),
     payload |-> ExpectedPayload(reqs[r].body), rid |-> r]

\* C5: every answered request whose body parses as JSON was answered 202
\* accepted and appended exactly one item, {provider: the path's name
\* lower-cased, payload: the parsed body}, adapter or no adapter.
C5_AcceptsJson ==
    /\ \A r \in 1..Len(reqs) :
          (Done(r) /\ BodyIsJson(reqs[r].body)) =>
             /\ reqs[r].response.status_code = 202
             /\ reqs[r].response.accepted
             /\ Cardinality({k \in 1..Len(enqLog) : enqLog[k] = r}) = 1
    /\ \A i \in 1..Len(queue) : queue[i] = ExpectedItem(queue[i].rid)
    /\ \A i \in 1..Len(item) : item[i] = ExpectedItem(item[i].rid)

\* A request for a provider without an adapter, spelt with capitals, was
\* accepted and its item is in the queue.
C5_Witness ==
    \E r \in 1..Len(reqs) :
        /\ reqs[r].provider_name = "Unknown_Svc"
        /\ reqs[r].response.status_code = 202
        /\ \E i \in 1..Len(queue) : queue[i].rid = r /\ queue[i].provider = "unknown_svc"

\* C6 (as claimed): every answered request whose body is not parseable as
\* JSON was answered 400 and enqueued nothing.
C6_Rejects400 ==
    \A r \in 1..Len(reqs) :
        (Done(r) /\ ~BodyIsJson(reqs[r].body)) =>
           /\ reqs[r].response.status_code = 400
           /\ \A k \in 1..Len(enqLog) : enqLog[k] # r

\* C7: the handler never waits for the worker (the queue is never full,
\* whatever the worker does or does not do), and no step, of the worker or
\* of anyone, changes a response once it is given.
C7_Decoupled ==
    /\ [](\A r \in 1..Len(reqs) : Pending(r) => ~full(queue))
    /\ [][\A r \in 1..Len(reqs) : Done(r) => reqs'[r] = reqs[r]]_vars

\* A request was accepted, its item then failed in the adapter, and another
\* was accepted while the worker had not yet taken anything after it.
C7_Witness ==
    /\ \E r \in 1..Len(reqs) :
          /\ reqs[r].response.status_code = 202
          /\ \E k \in 1..Len(worker_log) :
                worker_log[k].rid = r /\ worker_log[k].outcome = "raised"
    /\ \E r \in 1..Len(reqs) :
          /\ reqs[r].response.status_code = 202
          /\ \E i \in 1..Len(queue) : queue[i].rid = r

Emits(r) ==
    \/ reqs[r].provider_name = "Discord" /\ reqs[r].body = "discord"
    \/ reqs[r].provider_name = "apple" /\ reqs[r].body = "some"

ExpectedEvent(r) ==
    IF reqs[r].provider_name = "Discord"
    THEN Event(<<"Discord", " ", "Platform">>,
               <<"Operational", " - ", "All Systems Operational">>,
               "discord", ExpectedPayload("discord"))
    ELSE Event(<<"Apple Services">>, <<"No status data received.">>,
               "apple", ExpectedPayload("some"))

\* C8: the worker holds at most one item, starts the next only after the
\* previous is finished, finishes them in arrival order, and the sink holds,
\* in order, the events of the finished items that were not dropped.
C8_OneAtATimeInOrder ==
    /\ Len(item) = (IF wpc = "process" THEN 1 ELSE 0)
    /\ Len(deqLog) = Len(worker_log) + Len(item)
    /\ \A k \in 1..Len(worker_log) : worker_log[k].rid = enqLog[k]
    /\ LET emitted == SelectSeq(SubSeq(enqLog, 1, Len(worker_log)), Emits)
       IN  sink = [k \in 1..Len(emitted) |-> ExpectedEvent(emitted[k])]

\* Three items finished, a dropped one among them, two different events in
\* the sink.
C8_Witness ==
    /\ Len(worker_log) = 3
    /\ Len(sink) = 2
    /\ sink[1] # sink[2]

\* C9: an item is processed at most once, is never put into the queue a
\* second time, and once processed is neither in the queue nor held by the
\* worker.
C9_ConsumedOnce ==
    /\ \A i, j \in 1..Len(worker_log) : i # j => worker_log[i].rid # worker_log[j].rid
    /\ \A i, j \in 1..Len(queue) : i # j => queue[i].rid # queue[j].rid
    /\ \A k \in 1..Len(worker_log) :
          /\ \A i \in 1..Len(queue) : queue[i].rid # worker_log[k].rid
          /\ \A i \in 1..Len(item) : item[i].rid # worker_log[k].rid
    /\ \A i \in 1..Len(item), j \in 1..Len(queue) : item[i].rid # queue[j].rid

\* An item whose adapter raised and an item without adapter are both
\* finished, and the worker is back at dequeue.
C9_Witness ==
    /\ \E k \in 1..Len(worker_log) : worker_log[k].outcome = "raised"
    /\ \E k \in 1..Len(worker_log) : worker_log[k].outcome = "warning"
    /\ wpc \in {"get", "waiting"}
    /\ item = <<>>

\* C10: the worker's step on an item whose provider is none of openai,
\* discord, apple emits nothing, puts nothing back, lets go of the item and
\* returns to dequeue.
C10_DropsUnknown ==
    [][(wpc = "process" /\ wpc' # "process"
          /\ item[1].provider \notin {"openai", "discord", "apple"}) =>
            /\ sink' = sink
            /\ queue' = queue
            /\ item' = <<>>
            /\ wpc' = "get"
            /\ worker_log' = Append(worker_log,
                                    [rid |-> item[1].rid, outcome |-> "warning", exc |-> ""])]_vars

\* An item without adapter was dropped and the worker finished a later item.
C10_Witness ==
    \E i, j \in 1..Len(worker_log) :
        /\ i < j
        /\ worker_log[i].outcome = "warning"
        /\ worker_log[j].outcome = "event"

\* C11: an exception raised while an item is dispatched never ends the
\* worker loop: the worker's step on an item whose adapter fails (the OpenAI
\* adapter on a payload that is valid JSON but not an object) is caught,
\* emits nothing and returns to dequeue, the worker is never terminated, and
\* whenever it is at dequeue with an item in the queue it can take it.
C11_WorkerSurvives ==
    /\ [](wpc \in {"get", "waiting", "process"})
    /\ [][(wpc = "process" /\ wpc' # "process"
             /\ item[1].provider = "openai" /\ item[1].payload.k = "arr") =>
               /\ sink' = sink
               /\ item' = <<>>
               /\ wpc' = "get"
               /\ worker_log' = Append(worker_log,
                                       [rid |-> item[1].rid, outcome |-> "raised",
                                        exc |-> "AttributeError"])]_vars
    /\ []((wpc \in {"get", "waiting"} /\ queue # <<>>) => ENABLED dequeue_return)

\* The adapter failed on one item, and an item enqueued after that one has
\* been processed into an event.
C11_Witness ==
    \E i, j \in 1..Len(worker_log) :
        /\ i < j
        /\ worker_log[i].outcome = "raised"
        /\ worker_log[i].exc = "AttributeError"
        /\ worker_log[j].outcome = "event"
        /\ \E a, b \in 1..Len(enqLog) :
              a < b /\ enqLog[a] = worker_log[i].rid /\ enqLog[b] = worker_log[j].rid

\* The requests of the fair specification whose item has an adapter that
\* parses its payload.
LiveEmits(r) ==
    /\ r \in 1..Len(reqs)
    /\ \/ reqs[r].provider_name = "Discord" /\ reqs[r].body = "discord"
       \/ reqs[r].provider_name = "apple" /\ reqs[r].body = "some"
       \/ reqs[r].provider_name = "openai" /\ reqs[r].body = "some"

Accepted(r) == \E k \in 1..Len(enqLog) : enqLog[k] = r

\* The events in the sink that came from the item of request r: the n-th
\* event of the sink belongs to the n-th finished item that emitted.
EventsOf(r) ==
    { n \in 1..Len(sink) :
        \E k \in 1..Len(worker_log) :
            /\ worker_log[k].rid = r
            /\ worker_log[k].outcome = "event"
            /\ Cardinality({j \in 1..k : worker_log[j].outcome = "event"}) = n }

Contains(text, piece) == \E i \in 1..Len(text) : text[i] = piece

\* C12: with the worker scheduled fairly, every accepted item whose provider
\* key is openai, discord or apple and whose payload the adapter parses
\* eventually has exactly one event in the sink, with that key as provider,
\* and never more than one; the event of the Discord payload (indicator none,
\* no incidents) has a product containing "Discord" and a status containing
\* "Operational".
C12_EventuallyOneEvent ==
    \A r \in 1..MaxLive :
        /\ (Accepted(r) /\ LiveEmits(r)) ~>
              (/\ Cardinality(EventsOf(r)) = 1
               /\ \A n \in EventsOf(r) :
                     /\ sink[n].provider = ExpectedProvider(reqs[r].provider_name)
                     /\ sink[n].provider \in {"openai", "discord", "apple"}
                     /\ reqs[r].provider_name = "Discord" =>
                           /\ Contains(sink[n].product, "Discord")
                           /\ Contains(sink[n].status, "Operational"))
        /\ [](Cardinality(EventsOf(r)) <= 1)

\* Both accepted items have their event in the sink, the Discord one second.
C12_Witness ==
    /\ Len(sink) = 2
    /\ \A r \in 1..2 : Accepted(r) /\ LiveEmits(r) /\ Cardinality(EventsOf(r)) = 1
    /\ sink[2].provider = "discord"
    /\ sink[1].provider \in {"openai", "apple"}

\* C13: the cancellation of the worker task takes effect only where the
\* worker is suspended in dequeue: the step that ends the worker starts from
\* the suspended dequeue and removes nothing from the queue, a worker that
\* holds an item while the cancellation is pending still finishes that item,
\* and once the worker has ended on cancellation every item ever dequeued has
\* been processed and the items put meanwhile are still in the queue.
C13_CancelOnlyInDequeue ==
    /\ [][wpc' = "cancelled" =>
             /\ wpc \in {"waiting", "cancelled"}
             /\ wpc = "waiting" =>
                   /\ queue' = queue
                   /\ deqLog' = deqLog
                   /\ item = <<>> /\ item' = <<>>]_vars
    /\ [][(must_cancel /\ wpc = "process" /\ wpc' # "process") =>
             /\ wpc' = "get"
             /\ Len(worker_log') = Len(worker_log) + 1]_vars
    /\ [](wpc = "cancelled" =>
             /\ item = <<>>
             /\ Len(deqLog) = Len(worker_log)
             /\ \A k \in 1..Len(deqLog) : worker_log[k].rid = deqLog[k]
             /\ enqLog = deqLog \o Rids(queue))

\* The worker ended on cancellation after it had processed an item, although
\* another item had been put while it was suspended: that item is still in
\* the queue.
C13_Witness ==
    /\ wpc = "cancelled"
    /\ Len(worker_log) = 1
    /\ Len(queue) = 1
    /\ Len(enqLog) = 2

\* A text of an event that is not the empty string.
NonEmpty(text) == \E i \in 1..Len(text) : text[i] # ""

\* C14 (as claimed): every call of an adapter's parse, on the empty payload
\* and on every payload with any subset of its optional fields absent,
\* returns an event with a non-empty product and a non-empty status, and
\* does not raise.
C14_ParseTotal ==
    call.done =>
        /\ call.result.exc = ""
        /\ NonEmpty(call.result.product)
        /\ NonEmpty(call.result.status)

\* consecutive_errors of the poller that runs.
Counter ==
    CASE run.poller = "apple" -> apple.consecutive_errors
      [] run.poller = "discord" -> discord.consecutive_errors
      [] OTHER -> openai.consecutive_errors

C16_IdenticalBodySkips ==
    [][(/\ run.last.responses # <<>>
        /\ Len(run'.last.responses) = Len(run.last.responses)
        /\ \A i \in 1..Len(run.last.responses) :
              /\ run.last.responses[i].exc = ""
              /\ run.last.responses[i].status_code = 200
              /\ run'.last.responses[i] = run.last.responses[i]) =>
          /\ run'.last.sent = <<>>
          /\ apple'.last_hash = apple.last_hash
          /\ openai'.last_comp_body_hash = openai.last_comp_body_hash
          /\ openai'.last_inc_body_hash = openai.last_inc_body_hash
          /\ openai'.last_component_statuses = openai.last_component_statuses
          /\ openai'.last_incident_hashes = openai.last_incident_hashes]_vars

\* C17: consecutive_errors is the number of failing cycles since the last
\* cycle that did not fail: every failing cycle adds one, every other cycle
\* sets it to 0; the poller has exited exactly when five cycles in a row have
\* failed, and while it runs the counter is between 0 and 4.
C17_ExitAfterFive ==
    /\ [](Counter = run.streak)
    /\ [](run.pc = "exited" <=> run.streak = 5)
    /\ [](run.pc = "loop" => Counter \in 0..4)
    /\ [][Counter' = IF run'.last.exc = "" THEN 0 ELSE Counter + 1]_vars
    /\ [][run.pc = "exited" => UNCHANGED vars]_vars

\* A poller that was spared after four failures in a row (a success came)
\* has later failed five times in a row and exited.
C17_Witness ==
    /\ run.spared
    /\ run.pc = "exited"
    /\ Counter = 5

\* C18 (as claimed): a cycle in which the status source answers with a
\* status that is neither 2xx nor 304 ends as an error: the counter grows by
\* one.
C18_Non2xxIsError ==
    [][(\E i \in 1..Len(run'.last.responses) :
           /\ run'.last.responses[i].exc = ""
           /\ run'.last.responses[i].status_code \notin {200, 304}) =>
          /\ run'.last.exc # ""
          /\ Counter' = Counter + 1]_vars

\* The bodies of the model that are neither JSON nor JSONP.
Unparseable(content) == content = "html"

\* C19 (as claimed): a cycle that fetched a body that cannot be parsed ends
\* as an error: the counter grows by one and nothing was forwarded in it.
C19_ParseFailureIsError ==
    [][(\E i \in 1..Len(run'.last.responses) :
           /\ run'.last.responses[i].exc = ""
           /\ run'.last.responses[i].status_code = 200
           /\ Unparseable(run'.last.responses[i].content)) =>
          /\ run'.last.exc # ""
          /\ Counter' = Counter + 1
          /\ run'.last.sent = <<>>]_vars

\* C20 (as claimed): a cycle that ends in error leaves the cached tokens,
\* the hashes and the component and incident state as they were at its
\* start.
C20_ErrorLeavesState ==
    [][run'.last.exc # "" =>
          /\ apple'.last_hash = apple.last_hash
          /\ discord'.last_etag = discord.last_etag
          /\ discord'.last_modified = discord.last_modified
          /\ [openai' EXCEPT !.consecutive_errors = 0]
               = [openai EXCEPT !.consecutive_errors = 0]]_vars

\* What a forwarded envelope of the OpenAI poller says.
EnvType(e) == Lookup(e, "incident_type").s
EnvImpact(e) == Lookup(Lookup(e, "incident"), "impact").s
IsComponentEnvelope(e) == EnvImpact(e) = "component_change"

\* The i-th request of the cycle just finished was answered 304.
NotModified(i) ==
    /\ Len(run'.last.responses) >= i
    /\ run'.last.responses[i].exc = ""
    /\ run'.last.responses[i].status_code = 304

\* C21 (as claimed): a cycle in which an endpoint answers 304 forwards
\* nothing for that endpoint and leaves that endpoint's conditional tokens,
\* body hash and recorded state, and the first-run flag, as they were.
C21_NotModifiedFrame ==
    [][/\ (run.poller = "discord" /\ NotModified(1)) =>
             /\ run'.last.sent = <<>>
             /\ discord'.last_etag = discord.last_etag
             /\ discord'.last_modified = discord.last_modified
       /\ (run.poller = "openai" /\ NotModified(1)) =>
             /\ \A i \in 1..Len(run'.last.sent) : ~IsComponentEnvelope(run'.last.sent[i])
             /\ openai'.comp_etag = openai.comp_etag
             /\ openai'.comp_modified = openai.comp_modified
             /\ openai'.last_comp_body_hash = openai.last_comp_body_hash
             /\ openai'.last_component_statuses = openai.last_component_statuses
             /\ openai'.first_run = openai.first_run
       /\ (run.poller = "openai" /\ NotModified(2)) =>
             /\ \A i \in 1..Len(run'.last.sent) : IsComponentEnvelope(run'.last.sent[i])
             /\ openai'.inc_etag = openai.inc_etag
             /\ openai'.inc_modified = openai.inc_modified
             /\ openai'.last_inc_body_hash = openai.last_inc_body_hash
             /\ openai'.last_incident_hashes = openai.last_incident_hashes
             /\ openai'.first_run = openai.first_run]_vars

\* An envelope that announces an incident as new.
IsNewEnvelope(e) ==
    ~IsComponentEnvelope(e) /\ EnvType(e) \in {"outage", "degradation", "new_incident"}

\* C30 (as claimed): an incident is forwarded as new only when its id was
\* absent from an incident list the poller parsed earlier; in particular no
\* cycle forwards a new incident while the poller has not yet received an
\* incident list in an earlier cycle, even if a cycle has completed.
C30_SeededBeforeNew ==
    [][(run.poller = "openai" /\ openai.last_inc_body_hash = <<>>) =>
          \A i \in 1..Len(run'.last.sent) : ~IsNewEnvelope(run'.last.sent[i])]_vars

\* What the incident given to _classify_incident says, read off the input.
GivenImpact(inc, impacts) == HasKey(inc, "impact") /\ Lookup(inc, "impact").s \in impacts
GivenTitle(inc, titles) == HasKey(inc, "name") /\ Lookup(inc, "name").s \in titles
GivenResolved(inc) ==
    HasKey(inc, "status") /\ Lookup(inc, "status").s \in {"resolved", "Resolved"}
OutageTitles ==
    {"API outage", "API OUTAGE", "ChatGPT is down", "Sora unavailable",
     "Outage: elevated errors"}
DegradedTitles ==
    {"Degraded performance", "Elevated error rate", "High latency"}

\* C25 (as claimed): for an incident that is not resolved, impact critical
\* gives outage and impact major gives degradation whatever the title; for
\* any other impact a title with an outage word gives outage, else a title
\* with a degradation word gives degradation, else new_incident.
C25_ImpactFirst ==
    (call.adapter = "_classify_incident" /\ call.done /\ ~GivenResolved(call.payload)) =>
        call.result =
            (IF GivenImpact(call.payload, {"critical", "Critical"}) THEN "outage"
             ELSE IF GivenImpact(call.payload, {"major"}) THEN "degradation"
             ELSE IF GivenTitle(call.payload, OutageTitles) THEN "outage"
             ELSE IF GivenTitle(call.payload, DegradedTitles) THEN "degradation"
             ELSE "new_incident")

\* A call of an adapter's parse that has returned an event.
Parsed(adapter) == call.adapter = adapter /\ call.done /\ call.result.exc = ""

\* A string field the object carries, "" when it has none.
Given(obj, key) == IF HasKey(obj, key) THEN Lookup(obj, key).s ELSE ""

\* The payload lists at least one incident (Discord).
HasIncidents(payload) ==
    HasKey(payload, "incidents") /\ Lookup(payload, "incidents").kids # <<>>
FirstIncident(payload) == Lookup(payload, "incidents").kids[1].val
HasUpdates(inc) ==
    HasKey(inc, "incident_updates") /\ Lookup(inc, "incident_updates").kids # <<>>
\* The body of the incident's most recent update, "" when there is none.
UpdateBody(inc) ==
    IF HasUpdates(inc) THEN Given(Lookup(inc, "incident_updates").kids[1].val, "body") ELSE ""

\* C26 (as claimed): with incidents listed, the status of the Discord event
\* is the body of the first incident's most recent update if that is
\* non-empty, otherwise the incident's name if that is non-empty (also when
\* there are updates without a body), otherwise "No details available.".
C26_StatusFallback ==
    (Parsed("discord") /\ HasIncidents(call.payload)) =>
        LET inc == FirstIncident(call.payload)
        IN  call.result.status =
                <<IF UpdateBody(inc) # "" THEN UpdateBody(inc)
                  ELSE IF Given(inc, "name") # "" THEN Given(inc, "name")
                  ELSE "No details available.">>

\* The page indicator and description the payload gives, with the defaults
\* of a page that gives none.
PageIndicator(payload) ==
    IF HasKey(payload, "status") /\ HasKey(Lookup(payload, "status"), "indicator")
    THEN Lookup(payload, "status").kids[1].val.s ELSE "none"
PageDescription(payload) ==
    IF HasKey(payload, "status") /\ HasKey(Lookup(payload, "status"), "description")
    THEN Given(Lookup(payload, "status"), "description") ELSE "All Systems Operational"
IndicatorLabels == {"Operational", "Degraded Performance", "Partial Outage", "Major Outage"}
IndicatorLabel(indicator) ==
    CASE indicator = "none" -> "Operational"
      [] indicator = "minor" -> "Degraded Performance"
      [] indicator = "major" -> "Partial Outage"
      [] indicator = "critical" -> "Major Outage"

\* C27: DiscordAdapter.parse prefers incident data over the page indicator.
\* With incidents listed the product ends with the first incident's name and
\* the status is one text of that incident (update body or name) or the
\* generic string, never the indicator's label or the page description; with
\* no incidents the status is the label of the indicator by the fixed table,
\* " - ", and the page description.
C27_IncidentBeforeIndicator ==
    Parsed("discord") =>
        IF HasIncidents(call.payload)
        THEN LET inc == FirstIncident(call.payload)
             IN  /\ HasKey(inc, "name") => call.result.product[3] = Given(inc, "name")
                 /\ Len(call.result.status) = 1
                 /\ call.result.status[1] \in
                        ({UpdateBody(inc), Given(inc, "name")} \ {""}) \cup
                            {"No details available."}
                 /\ call.result.status[1] \notin IndicatorLabels
                 /\ call.result.status[1] # PageDescription(call.payload)
        ELSE call.result.status =
                <<IndicatorLabel(PageIndicator(call.payload)), " - ",
                  PageDescription(call.payload)>>

\* An incident is listed while the page indicator is critical.
C27_Witness ==
    /\ Parsed("discord") /\ HasIncidents(call.payload)
    /\ PageIndicator(call.payload) = "critical"
    /\ call.result.product = <<"Discord", " ", "API latency">>
    /\ call.result.status = <<"Investigating.">>

\* The services the Apple payload lists, in order (none when it has no
\* data or no list).
ServicesGiven(payload) ==
    IF HasKey(payload, "data") /\ HasKey(Lookup(payload, "data"), "services")
    THEN [i \in 1..Len(Lookup(Lookup(payload, "data"), "services").kids) |->
            Lookup(Lookup(payload, "data"), "services").kids[i].val]
    ELSE <<>>
\* A service is affected when its events list is non-empty.
Affected(svc) == HasKey(svc, "events") /\ Lookup(svc, "events").kids # <<>>
AffectedCount(payload) ==
    Cardinality({i \in 1..Len(ServicesGiven(payload)) : Affected(ServicesGiven(payload)[i])})
Pieces(text) == {text[i] : i \in 1..Len(text)}
\* What the status says about the services of a payload that has data.
ServicesReported(payload, result) ==
    IF AffectedCount(payload) = 0
    THEN result.status = <<"All services are operating normally.">>
    ELSE /\ result.product =
                <<"Apple Services (", ToString(AffectedCount(payload)), " affected)">>
         /\ \A i \in 1..Len(ServicesGiven(payload)) :
                LET svc == ServicesGiven(payload)[i]
                IN  HasKey(svc, "serviceName") =>
                        (Affected(svc) <=> Given(svc, "serviceName") \in Pieces(result.status))
DataMissingOrNull(payload) ==
    ~HasKey(payload, "data") \/ Lookup(payload, "data").k = "null"
DataEmpty(payload) ==
    HasKey(payload, "data") /\ Lookup(payload, "data").k = "obj"
        /\ Lookup(payload, "data").kids = <<>>

\* C28 (as claimed): with data missing or null the status of the Apple event
\* is "No status data received."; otherwise, with k services whose events
\* list is non-empty, k = 0 gives "All services are operating normally." and
\* k >= 1 gives a product with "k affected" and a status naming exactly the
\* affected services.
C28_AffectedServices ==
    Parsed("apple") =>
        IF DataMissingOrNull(call.payload)
        THEN call.result.status = <<"No status data received.">>
        ELSE ServicesReported(call.payload, call.result)

\* C28 (amended): the same, with an empty data object counted as no data:
\* it gives "No status data received." too, not "operating normally".
C28_AffectedServicesOfData ==
    Parsed("apple") =>
        IF DataMissingOrNull(call.payload) \/ DataEmpty(call.payload)
        THEN call.result.status = <<"No status data received.">>
        ELSE ServicesReported(call.payload, call.result)

\* Two services are listed and only the first is affected.
C28_Witness ==
    /\ Parsed("apple")
    /\ Len(ServicesGiven(call.payload)) = 2 /\ AffectedCount(call.payload) = 1
    /\ call.result.product = <<"Apple Services (", "1", " affected)">>
    /\ "iCloud Mail" \in Pieces(call.result.status)
    /\ "App Store" \notin Pieces(call.result.status)

\* The incident of an OpenAI payload and the components it lists.
IncidentGiven(payload) ==
    IF HasKey(payload, "incident") THEN Lookup(payload, "incident") ELSE EmptyDict
ComponentsGiven(payload) ==
    IF HasKey(IncidentGiven(payload), "components")
    THEN Lookup(IncidentGiven(payload), "components").kids ELSE <<>>
UpperCased(incident_type) ==
    CASE incident_type = "outage" -> "OUTAGE"
      [] incident_type = "resolved" -> "RESOLVED"
      [] incident_type = "new_incident" -> "NEW_INCIDENT"

\* C29: OpenAIAdapter.parse reads a payload as the poller's envelope iff it
\* has the key incident_type. Then one listed component gives the product
\* "OpenAI " and its name, two or more give "OpenAI (n components
\* affected)", none gives the incident title ("OpenAI" without a title),
\* and the status starts with "[", the upper-cased incident_type, "]".
\* Without incident_type the status is the incident's body, else its name,
\* else "No status message provided.".
C29_EnvelopeOrLegacy ==
    Parsed("openai") =>
        LET inc == IncidentGiven(call.payload)
            comps == ComponentsGiven(call.payload)
        IN  IF HasKey(call.payload, "incident_type")
            THEN /\ Len(comps) = 1 =>
                        call.result.product = <<"OpenAI ", Given(comps[1].val, "name")>>
                 /\ Len(comps) >= 2 =>
                        call.result.product =
                            <<"OpenAI (", ToString(Len(comps)), " components affected)">>
                 /\ Len(comps) = 0 =>
                        call.result.product =
                            <<IF HasKey(inc, "title") THEN Given(inc, "title") ELSE "OpenAI">>
                 /\ SubSeq(call.result.status, 1, 3) =
                        <<"[", UpperCased(Given(call.payload, "incident_type")), "] (">>
            ELSE call.result.status =
                    <<IF Given(inc, "body") # "" THEN Given(inc, "body")
                      ELSE IF Given(inc, "name") # "" THEN Given(inc, "name")
                      ELSE "No status message provided.">>

\* An envelope of type new_incident listing two components.
C29_Witness ==
    /\ Parsed("openai")
    /\ Len(ComponentsGiven(call.payload)) = 2
    /\ call.result.product = <<"OpenAI (", "2", " components affected)">>
    /\ call.result.status[2] = "NEW_INCIDENT"

\* The components that are no groups, with their statuses, in the order
\* the body lists them.
ComponentsServed(content) ==
    CASE content = "comp_ok" -> <<Member("API", "operational")>>
      [] content = "comp_degraded" -> <<Member("API", "degraded_performance")>>
      [] content = "page_ok" ->
            <<Member("API", "operational"), Member("ChatGPT", "operational")>>
      [] content = "page_degraded" ->
            <<Member("API", "degraded_performance"), Member("ChatGPT", "operational")>>
      [] content = "page_outage" ->
            <<Member("API", "major_outage"), Member("ChatGPT", "under_maintenance")>>
      [] content = "page_partial" ->
            <<Member("API", "partial_outage"), Member("ChatGPT", "unknown")>>
      [] content = "page_less" -> <<Member("API", "degraded_performance")>>
ChangeType(status) ==
    CASE status = "operational" -> "resolved"
      [] status = "degraded_performance" -> "degradation"
      [] status = "partial_outage" -> "outage"
      [] status = "major_outage" -> "outage"
      [] status = "under_maintenance" -> "maintenance"
      [] status = "unknown" -> "unknown"

\* The i-th request of the cycle just finished was answered 200 with a
\* body that parses and whose hash is not the given one.
Parsed200(i, last_body_hash) ==
    /\ Len(run'.last.responses) >= i
    /\ run'.last.responses[i].exc = ""
    /\ run'.last.responses[i].status_code = 200
    /\ run'.last.responses[i].content # "html"
    /\ md5(RemoteBytes(run'.last.responses[i].content)) # last_body_hash

\* What an envelope says of a component's change.
ChangeSaid(e) ==
    [name |-> Given(Lookup(Lookup(e, "incident"), "components").kids[1].val, "name"),
     status |-> Given(Lookup(e, "incident"), "status"),
     message |-> Given(Lookup(e, "incident"), "message"),
     type |-> EnvType(e)]
ChangesSaid(sent) ==
    [i \in 1..Len(SelectSeq(sent, IsComponentEnvelope)) |->
        ChangeSaid(SelectSeq(sent, IsComponentEnvelope)[i])]
\* The changes between the recorded statuses and the served ones.
ChangesDue(last, current) ==
    LET changed(c) == HasEntry(last, c.key) /\ Entry(last, c.key) # c.val
    IN  [i \in 1..Len(SelectSeq(current, changed)) |->
            LET c == SelectSeq(current, changed)[i]
            IN  [name |-> c.key, status |-> c.val,
                 message |-> c.key \o " changed from " \o replace_title(Entry(last, c.key))
                             \o " to " \o replace_title(c.val) \o ".",
                 type |-> ChangeType(c.val)]]

Incident(id, updated_at, title, unresolved, type) ==
    [id |-> id, updated_at |-> updated_at, title |-> title, unresolved |-> unresolved,
     type |-> type]
IncidentsServed(content) ==
    CASE content = "inc_none" -> <<>>
      [] content = "inc_one" -> <<Incident("i1", "t1", "API outage", TRUE, "outage")>>
      [] content = "inc_later" -> <<Incident("i1", "t2", "API outage", TRUE, "outage")>>
      [] content = "inc_two" ->
            <<Incident("i1", "t1", "API outage", TRUE, "outage"),
              Incident("i2", "t1", "Sora unavailable", TRUE, "outage")>>
      [] content = "inc_closing" ->
            <<Incident("i1", "t3", "API outage", FALSE, "resolved"),
              Incident("i2", "t2", "Sora unavailable", TRUE, "outage")>>
      [] content = "inc_other" ->
            <<Incident("i3", "t1", "High latency", TRUE, "degradation")>>
Unresolved(content) ==
    SelectSeq(IncidentsServed(content), LAMBDA inc : inc.unresolved)
Fingerprint(inc) == md5(<<inc.id, ":", inc.updated_at>>)

\* The envelopes of incidents that came or changed, and those of incidents
\* that went.
IsGoneEnvelope(e) ==
    ~IsComponentEnvelope(e) /\ Given(Lookup(e, "incident"), "title") = "Incident Resolved"
IsIncidentEnvelope(e) == ~IsComponentEnvelope(e) /\ ~IsGoneEnvelope(e)
IncidentsSaid(sent) ==
    [i \in 1..Len(SelectSeq(sent, IsIncidentEnvelope)) |->
        [title |-> Given(Lookup(SelectSeq(sent, IsIncidentEnvelope)[i], "incident"), "title"),
         type |-> EnvType(SelectSeq(sent, IsIncidentEnvelope)[i])]]
\* What is due for the unresolved incidents served, given the tracked ones.
IncidentsDue(last, unresolved) ==
    LET due(inc) == ~HasEntry(last, inc.id) \/ Entry(last, inc.id) # Fingerprint(inc)
    IN  [i \in 1..Len(SelectSeq(unresolved, due)) |->
            LET inc == SelectSeq(unresolved, due)[i]
            IN  [title |-> inc.title,
                 type |-> IF HasEntry(last, inc.id) THEN "update" ELSE inc.type]]

Tracked(st) == {st.last_incident_hashes[i].key : i \in 1..Len(st.last_incident_hashes)}
UnresolvedIds(content) == {Unresolved(content)[i].id : i \in 1..Len(Unresolved(content))}
GoneSaid(sent) == Len(SelectSeq(sent, IsGoneEnvelope))

ForwardFailed ==
    /\ Len(run.last.responses) = 1
    /\ run.last.responses[1].exc = "" /\ run.last.responses[1].status_code = 200
    /\ run.last.exc \in GatewayOutcomes \ {""}
\* The next cycle finds the source as the failed one left it: the same body
\* with a 200, or a 304 to the validators of that body.
StillServed ==
    /\ run'.last.responses[1].exc = ""
    /\ \/ run'.last.responses[1].status_code = 304
       \/ /\ run'.last.responses[1].status_code = 200
          /\ run'.last.responses[1].content = run.last.responses[1].content

\* C31 (as claimed): in the Apple scraper and the Discord poller, when the
\* forward of a body has failed and the next cycle finds the source
\* unchanged and ends without error, that cycle forwards the body: the
\* change is not skipped.
C31_ChangeNotLost ==
    [][(run.poller \in {"apple", "discord"} /\ ForwardFailed /\ StillServed
        /\ run'.last.exc = "") =>
          run'.last.sent # <<>>]_vars

\* The bodies of the two endpoints that parse.
ComponentBodies ==
    {"comp_ok", "comp_degraded", "page_ok", "page_degraded", "page_outage", "page_partial",
     "page_less"}
IncidentBodies == {"inc_none", "inc_one", "inc_later", "inc_two", "inc_closing", "inc_other"}
\* The fingerprints of the unresolved incidents of a body, by id.
FingerprintsServed(content) ==
    [i \in 1..Len(Unresolved(content)) |->
        Member(Unresolved(content)[i].id, Fingerprint(Unresolved(content)[i]))]

\* C32 (as claimed): at every cycle boundary of the OpenAI poller, if
\* last_comp_body_hash is the hash of a components body then
\* last_component_statuses holds the statuses of that body, and if
\* last_inc_body_hash is the hash of an incidents body then
\* last_incident_hashes holds the fingerprints of its unresolved incidents.
C32_HashAndStateAgree ==
    run.poller = "openai" =>
        /\ \A b \in ComponentBodies :
               openai.last_comp_body_hash = md5(RemoteBytes(b)) =>
                   openai.last_component_statuses = ComponentsServed(b)
        /\ \A b \in IncidentBodies :
               openai.last_inc_body_hash = md5(RemoteBytes(b)) =>
                   openai.last_incident_hashes = FingerprintsServed(b)

\* The incidents (by title, one per id in the bodies of the model) that the
\* gateway accepted as new in a cycle, and those a body lists as unresolved.
NewSaid(sent) ==
    {IncidentsSaid(sent)[i].title :
        i \in {j \in 1..Len(IncidentsSaid(sent)) : IncidentsSaid(sent)[j].type # "update"}}
UnresolvedTitles(content) ==
    {Unresolved(content)[i].title : i \in 1..Len(Unresolved(content))}

\* C33 (as claimed, for two cycles in a row): an incident that the gateway
\* accepted as new in one cycle of the OpenAI poller and that the next
\* cycle's incident list still shows as unresolved is not forwarded as new
\* again by that cycle, whether or not the first cycle ended in an error.
C33_NewAtMostOnce ==
    [][run.poller = "openai" =>
          \A title \in NewSaid(run.last.sent) :
              (/\ Len(run'.last.responses) = 2
               /\ run'.last.responses[2].exc = ""
               /\ run'.last.responses[2].status_code = 200
               /\ run'.last.responses[2].content \in IncidentBodies
               /\ title \in UnresolvedTitles(run'.last.responses[2].content)) =>
                  title \notin NewSaid(run'.last.sent)]_vars

\* The task_done calls that returned: every enqueue adds one unfinished
\* task, every task_done takes one away.
TaskDoneCalls == Len(enqLog) - unfinished

\* C34: the worker calls task_done once for every item it has dequeued and
\* finished with, whichever way it finished (event emitted, item dropped
\* for want of an adapter, exception caught): the calls are as many as the
\* items processed, never more than the completed dequeues (only the item in
\* hand is still owed its call), and task_done never raises.
C34_TaskDoneOnce ==
    /\ wpc # "crashed"
    /\ TaskDoneCalls = Len(worker_log)
    /\ TaskDoneCalls <= Len(deqLog)
    /\ Len(deqLog) - TaskDoneCalls = Len(item)

\* Three items went the three ways and each had its task_done.
C34_Witness ==
    /\ {worker_log[k].outcome : k \in 1..Len(worker_log)} = {"event", "warning", "raised"}
    /\ TaskDoneCalls = 3
    /\ unfinished = 0

\* The components an envelope list speaks of.
NamesSaid(sent) == {ChangesSaid(sent)[i].name : i \in 1..Len(ChangesSaid(sent))}

====
